---- MODULE Spec2Model ----
(***************************************************************************)
(* demikernel-ci: a CI task orchestrator.  A job file is parsed and        *)
(* compiled into one task queue per worker name (job.rs), the scheduler    *)
(* takes idle runners from a shared pool, builds one worker per runner     *)
(* and runs the workers concurrently (scheduler.rs, worker.rs).            *)
(***************************************************************************)
EXTENDS Integers, Sequences, FiniteSets, TLC

(***************************************************************************)
(* Bounds of the model.                                                    *)
(***************************************************************************)
\* longest job file made of well-formed entries only (compilation)
MaxEntries == 4
\* longest job file that may hold malformed or unrecognized entries
MaxOddEntries == 2
\* how many times one job file is compiled
MaxCompiles == 2

\* longest job file handed to the scheduler
MaxRunEntries == 5
\* longest job file of the jobs that run concurrently
MaxSmallEntries == 2
\* configured runners (entries of the workers list of the configuration)
NumRunners == 2
\* most pieces a query string has between '&'
MaxPairs == 2
\* the longest command list of an action of the jobs that exercise Runner::run
MaxCommands == 3

WorkerNames == {"w1", "w2", "w3"}
\* worker names of the job files handed to the scheduler
RunWorkerNames == {"w1", "w2"}
\* request-handler threads of the server
Threads == {1, 2}
\* what a remote execution that succeeds sends back (lines already stream-tagged)
RunnerOutputs == {<<"[stdout] hi">>}
ActionNames == {"A", "B"}

(***************************************************************************)
(* Small helpers.                                                          *)
(***************************************************************************)
SeqsUpTo(S, n) == UNION {[1..k -> S] : k \in 0..n}

Range(s) == {s[i] : i \in DOMAIN s}

Perms(S) == {p \in [1..Cardinality(S) -> S] : Range(p) = S}

\* Option<T> as a sequence of length 0 (None) or 1 (Some)
None == <<>>
Some(x) == <<x>>

(***************************************************************************)
(* YAML values as yaml_rust hands them to Job::parse.                      *)
(***************************************************************************)
YStr(s) == [t |-> "str", v |-> s]
YInt == [t |-> "int"]
YVec(s) == [t |-> "vec", v |-> s]
YBad == [t |-> "bad"]
YHash(action, barrier, runs_on, commands) ==
    [t |-> "hash", action |-> action, barrier |-> barrier,
     runs_on |-> runs_on, commands |-> commands]

as_str(y) == IF y.t = "str" THEN Some(y.v) ELSE None
as_vec(y) == IF y.t = "vec" THEN Some(y.v) ELSE None
as_hash(y) == IF y.t = "hash" THEN Some(y) ELSE None
\* Hash::get / Hash::contains_key: a key that is absent is held as YBad
hash_has(y) == y.t # "bad"

ActionEntry(name, runs_on, commands) ==
    YHash(YStr(name), YBad, YStr(runs_on), YVec([i \in DOMAIN commands |-> YStr(commands[i])]))
BarrierEntry == YHash(YBad, YStr("true"), YBad, YBad)

\* well-formed entries: every action name on w1, one action on each other worker, a barrier
GoodEntries ==
    {ActionEntry(n, "w1", <<"c1">>) : n \in ActionNames}
    \cup {ActionEntry("A", w, <<"c1">>) : w \in WorkerNames}
    \cup {BarrierEntry}

OddEntries ==
    { ActionEntry("A", "w1", <<>>),
      ActionEntry("A", "w1", <<"c1", "c2">>),
      YHash(YInt, YBad, YStr("w1"), YVec(<<YStr("c1")>>)),
      YHash(YStr("A"), YBad, YBad, YVec(<<YStr("c1")>>)),
      YHash(YStr("A"), YBad, YInt, YVec(<<YStr("c1")>>)),
      YHash(YStr("A"), YBad, YStr("w1"), YBad),
      YHash(YStr("A"), YBad, YStr("w1"), YStr("c1")),
      YHash(YStr("A"), YBad, YStr("w1"), YVec(<<YStr("c1"), YInt>>)),
      YHash(YStr("A"), YStr("true"), YStr("w1"), YVec(<<YStr("c1")>>)),
      YHash(YBad, YBad, YStr("w1"), YVec(<<YStr("c1")>>)),
      YStr("barrier") }

\* a job file: the documents YamlLoader returns, the first holding the key "job"
JobFile(entries) == <<[t |-> "hash", job |-> YVec(entries)]>>

JobFiles ==
    {JobFile(s) : s \in SeqsUpTo(GoodEntries, MaxEntries)}
    \cup {JobFile(s) : s \in SeqsUpTo(GoodEntries \cup OddEntries, MaxOddEntries)}
    \cup {<<>>, <<[t |-> "hash", job |-> YBad]>>, <<[t |-> "hash", job |-> YStr("x")]>>,
          <<YStr("x")>>}

\* the env a request hands to Job::new: a set of <<key, value>> pairs, keys unique
Envs == {{<<"DEMIKERNEL_JOB", "job.yaml">>},
         {<<"DEMIKERNEL_JOB", "job.yaml">>, <<"DEMIKERNEL_TARGET", "release">>}}
\* the env of the requests that reach the scheduler
RunEnvs == {{<<"DEMIKERNEL_JOB", "job.yaml">>, <<"DEMIKERNEL_TARGET", "release">>}}

(***************************************************************************)
(* Action, Task, TaskQueue.                                                *)
(***************************************************************************)
Action(name, commands, runs_on) ==
    [type |-> "Action", name |-> name, commands |-> commands, runs_on |-> runs_on,
     output |-> None]
Barrier(n) == [type |-> "Barrier", n |-> n]

\* mutant: the output is dropped
set_output_dropped(action, output) == action
set_output(action, output) == [action EXCEPT !.output = Some(output)]

Ok(v) == [ok |-> TRUE, v |-> v]
Err(e) == [ok |-> FALSE, e |-> e]
Panic == [ok |-> FALSE, e |-> "panic"]

(***************************************************************************)
(* Job::parse.                                                             *)
(***************************************************************************)
RECURSIVE parse_commands(_, _)
parse_commands(commands_entry_vec, commands) ==
    IF commands_entry_vec = <<>> THEN Ok(commands)
    ELSE IF as_str(Head(commands_entry_vec)) = None THEN Err("failed to parse commands entry")
    ELSE parse_commands(Tail(commands_entry_vec),
                        Append(commands, as_str(Head(commands_entry_vec))[1]))

\* one entry of the job list: a Task, an error, or nothing (skipped)
parse_entry(task) ==
    IF as_hash(task) = None THEN Ok(None)
    ELSE IF hash_has(task.action) THEN
        IF as_str(task.action) = None THEN Err("failed to parse action entry")
        ELSE IF ~hash_has(task.runs_on) THEN Err("missing runs-on entry")
        ELSE IF as_str(task.runs_on) = None THEN Err("failed to parse runs-on entry")
        ELSE IF ~hash_has(task.commands) THEN Err("missing commands entry")
        ELSE IF as_vec(task.commands) = None THEN Err("failed to parse commands entry")
        ELSE LET commands == parse_commands(task.commands.v, <<>>)
             IN  IF ~commands.ok THEN commands
                 ELSE Ok(Some(Action(task.action.v, commands.v, task.runs_on.v)))
    ELSE IF hash_has(task.barrier) THEN Ok(Some(Barrier(0)))
    ELSE Ok(None)

RECURSIVE parse_entries(_, _)
parse_entries(job, tasks_) ==
    IF job = <<>> THEN Ok(tasks_)
    ELSE LET r == parse_entry(Head(job))
         IN  IF ~r.ok THEN r ELSE parse_entries(Tail(job), tasks_ \o r.v)

\* docs[0] of an empty Vec<Yaml> is an index out of bounds: the thread panics
parse(docs) ==
    IF docs = <<>> THEN Panic
    ELSE LET doc == docs[1]
             job == IF doc.t = "hash" THEN doc.job ELSE YBad
         IN  IF as_vec(job) = None THEN Err("missing job entry")
             ELSE parse_entries(job.v, <<>>)

(***************************************************************************)
(* Job::new: the loop that distributes the parsed entries.                 *)
(***************************************************************************)
\* mutant: the task is put at the front of its queue
push_action_front(tasks_, task) ==
    IF task.runs_on \in DOMAIN tasks_
    THEN [tasks_ EXCEPT ![task.runs_on] = <<task>> \o @]
    ELSE tasks_ @@ (task.runs_on :> <<task>>)

\* tasks.entry(runs_on).or_insert_with(TaskQueue::default).push_back(task)
push_action(tasks_, task) ==
    IF task.runs_on \in DOMAIN tasks_
    THEN [tasks_ EXCEPT ![task.runs_on] = Append(@, task)]
    ELSE tasks_ @@ (task.runs_on :> <<task>>)

\* mutant: the loop over the queues ends after the first queue
push_barrier_first(tasks_, order, n) ==
    IF order = <<>> THEN tasks_
    ELSE [tasks_ EXCEPT ![Head(order)] = Append(@, Barrier(n))]

\* for (_, task_queue) in tasks.iter_mut(): the keys in the order the map yields them
RECURSIVE push_barrier(_, _, _)
push_barrier(tasks_, order, n) ==
    IF order = <<>> THEN tasks_
    ELSE push_barrier([tasks_ EXCEPT ![Head(order)] = Append(@, Barrier(n))], Tail(order), n)

new_job(env_, tasks_queues_, participants_) ==
    [env |-> env_, tasks_queues |-> tasks_queues_, barrier_participants |-> participants_]

num_workers(j) == Cardinality(DOMAIN j.tasks_queues)
get_task_names(j) == DOMAIN j.tasks_queues
env(j) == j.env


(***************************************************************************)
(* Job::new as a function of the job file (one HashMap iteration order).   *)
(***************************************************************************)
SomeOrder(S) == CHOOSE p \in Perms(S) : TRUE

RECURSIVE distribute(_, _, _, _)
distribute(entries, tasks_, count, sizes) ==
    IF entries = <<>> THEN <<tasks_, sizes>>
    ELSE IF Head(entries).type = "Action"
    THEN distribute(Tail(entries), push_action(tasks_, Head(entries)), count + 1, sizes)
    ELSE distribute(Tail(entries), push_barrier(tasks_, SomeOrder(DOMAIN tasks_), count),
                    0, Append(sizes, count))

job_new(docs, parameters_) ==
    LET r == parse(docs)
    IN  IF ~r.ok THEN r
        ELSE LET d == distribute(r.v, [k \in {} |-> <<>>], 0, <<>>)
             IN  Ok(new_job(parameters_, d[1], d[2]))

(***************************************************************************)
(* The job files of the jobs directory.  The i-th entry, when it is an     *)
(* action, is named after its position, so that actions are told apart.    *)
(***************************************************************************)
RunShapes == RunWorkerNames \cup {"barrier"}

RunEntry(shape, i) ==
    IF shape = "barrier" THEN BarrierEntry ELSE ActionEntry(ToString(i), shape, <<"c1">>)

RunFile(shapes) == JobFile([i \in DOMAIN shapes |-> RunEntry(shapes[i], i)])

StagedJobFiles == {RunFile(s) : s \in SeqsUpTo(RunShapes, MaxRunEntries)}
\* the small jobs, and the smallest job in which a worker blocks at a barrier
SmallJobFiles ==
    {RunFile(s) : s \in SeqsUpTo(RunShapes, MaxSmallEntries)}
    \cup {RunFile(<<"w1", "w2", "barrier">>)}

\* what Job::new returns for each job file of a directory
StagedJobs == {job_new(docs, env_) : docs \in StagedJobFiles, env_ \in RunEnvs}
SmallJobs == {job_new(docs, env_) : docs \in SmallJobFiles, env_ \in RunEnvs}

\* one worker, one action before each barrier: w1, barrier, w1, ...
SingleShapes ==
    {s \in SeqsUpTo({"w1", "barrier"}, MaxRunEntries) :
        /\ s # <<>>
        /\ \A i \in DOMAIN s : s[i] = (IF i % 2 = 1 THEN "w1" ELSE "barrier")}
SingleJobs == SmallJobs \cup {job_new(RunFile(s), env_) : s \in SingleShapes, env_ \in RunEnvs}

\* a directory with a job of each kind; a name may also designate no file or an empty one
TriggerJobFiles ==
    {RunFile(<<"w1">>), RunFile(<<"w1", "barrier", "w1">>), RunFile(<<"w1", "w2", "barrier">>),
     RunFile(<<>>), <<>>}
TriggerJobs ==
    {job_new(docs, env_) : docs \in TriggerJobFiles, env_ \in RunEnvs}
    \cup {Err("No such file or directory")}

\* jobs of one and of two workers, for runs that compete for the runners
PoolJobs ==
    {job_new(RunFile(s), env_) :
        s \in {<<"w1">>, <<"w1", "w2", "barrier">>}, env_ \in RunEnvs}

\* one action, of every command list, and a job of two workers and a barrier
CommandLists == SeqsUpTo({"c1", "c2"}, MaxCommands) \ {<<>>}
RunnerJobs ==
    {job_new(JobFile(<<ActionEntry("1", "w1", commands)>>), env_) :
        commands \in CommandLists, env_ \in RunEnvs}
    \cup {job_new(RunFile(<<"w1", "w2", "barrier">>), env_) : env_ \in RunEnvs}

\* one worker more than the configuration has runners, one action on each
BigWorkers == NumRunners + 1
BigJobFile ==
    JobFile([i \in 1..BigWorkers |-> ActionEntry(ToString(i), "w" \o ToString(i), <<"c1">>)])
\* the jobs that compete for the runners, and a job that needs more runners than exist
BigJobs == PoolJobs \cup {job_new(BigJobFile, env_) : env_ \in RunEnvs}

JobsDirectory(home) ==
    IF home = "small" THEN SmallJobs
    ELSE IF home = "big" THEN BigJobs
    ELSE IF home = "runner" THEN RunnerJobs
    ELSE IF home = "pool" THEN PoolJobs
    ELSE IF home = "staged" THEN StagedJobs
    ELSE IF home = "single" THEN SingleJobs
    ELSE IF home = "trigger" THEN TriggerJobs
    ELSE {}

(***************************************************************************)
(* The trigger: dispatcher, run_job, parse_job_parameters, send_response.  *)
(***************************************************************************)
\* a request: the path of the URI and its query, None or the pieces between '&',
\* each piece the parts between '='
Request(path, query) == [path |-> path, query |-> query]

QueryPairs ==
    {<<"JOB", "job.yaml">>, <<"job", "job.yaml">>, <<"TARGET", "release">>,
     <<"target", "debug">>, <<"JOB">>, <<"JOB", "a", "b">>, <<"">>}

Paths == {"/run", "/status"}

TriggerRequests ==
    {Request(path, query) :
        path \in Paths,
        query \in {None} \cup {Some(q) : q \in SeqsUpTo(QueryPairs, MaxPairs) \ {<<>>}}}

GoodRequest == Request("/run", Some(<<<<"JOB", "job.yaml">>, <<"TARGET", "release">>>>))

Requests(home) == IF home = "trigger" THEN TriggerRequests ELSE {GoodRequest}

to_uppercase(s) ==
    CASE s = "job" -> "JOB"
      [] s = "target" -> "TARGET"
      [] OTHER -> s

\* HashMap::insert: a later value replaces an earlier one of the same key
insert(m, k, v) == [x \in DOMAIN m \cup {k} |-> IF x = k THEN v ELSE m[x]]

RECURSIVE parse_pairs(_, _)
parse_pairs(pairs, result_) ==
    IF pairs = <<>> THEN result_
    ELSE LET parts == Head(pairs)
         IN  IF Len(parts) = 2
             THEN parse_pairs(Tail(pairs), insert(result_, to_uppercase(parts[1]), parts[2]))
             ELSE parse_pairs(Tail(pairs), result_)

parse_job_parameters(query) == parse_pairs(query, [k \in {} |-> ""])

env_var_prefix == "DEMIKERNEL_"

\* run_job up to the call of Job::new: an error, or the job name and the env
run_job_parameters(request) ==
    IF request.query = None THEN Err("missing query")
    ELSE LET parameters_ == parse_job_parameters(request.query[1])
         IN  IF DOMAIN parameters_ = {} THEN Err("malformed query")
             ELSE IF "JOB" \notin DOMAIN parameters_ THEN Err("missing job name")
             ELSE Ok([job_name |-> parameters_["JOB"],
                      env |-> {<<env_var_prefix \o k, parameters_[k]>> : k \in DOMAIN parameters_}])

dispatcher(request) ==
    IF request.path = "/run" THEN run_job_parameters(request)
    ELSE Err("unsupported trigger")

\* mutant: the response of an error carries the status of a success
send_response_ok(message) ==
    IF message.ok THEN [status |-> 200, body |-> message.v]
    ELSE [status |-> 200, body |-> <<>>]

\* the status line and the body send_response writes
send_response(message) ==
    IF message.ok THEN [status |-> 200, body |-> message.v]
    ELSE [status |-> 500, body |-> <<>>]

(***************************************************************************)
(* Runner::run: what a remote execution makes of an action.                *)
(***************************************************************************)
\* what the remote side does with one invocation: whether the channel opens and exec
\* is accepted, the lines it sends (or bytes that are no UTF-8), whether the channel
\* is at end of file after the streams were read, and the exit status
RemoteBehaviour(exec, utf8, lines, eof, exit_status) ==
    [exec |-> exec, utf8 |-> utf8, lines |-> lines, eof |-> eof, exit_status |-> exit_status]

BasicRemote ==
    {RemoteBehaviour("ok", TRUE, lines, TRUE, 0) : lines \in RunnerOutputs}
    \cup {RemoteBehaviour("exec failed", TRUE, <<>>, TRUE, 0),
          RemoteBehaviour("ok", FALSE, <<>>, TRUE, 0)}

TriggerRemote ==
    BasicRemote
    \cup {RemoteBehaviour("ok", TRUE, lines, TRUE, 1) : lines \in RunnerOutputs \cup {<<>>}}
    \cup {RemoteBehaviour("channel failed", TRUE, <<>>, TRUE, 0),
          RemoteBehaviour("ok", TRUE, <<>>, FALSE, 0),
          RemoteBehaviour("ok", TRUE, <<>>, TRUE, 0)}

Remote(home) == IF home \in {"trigger", "runner"} THEN TriggerRemote ELSE BasicRemote

\* how channel.close() and channel.wait_close() end
CloseOutcomes(home) ==
    IF home = "runner" THEN {"ok", "close failed", "wait_close failed"} ELSE {"ok"}

\* Runner::run and do_run: channel_session, exec, the streams are read and decoded,
\* then eof() is asked; with output and no end of file the loop reads on, and the
\* remote side is taken to send nothing more.  exit_status() is never called.
runner_run(rb) ==
    IF rb.exec # "ok" THEN Err(rb.exec)
    ELSE IF ~rb.utf8 THEN Panic
    ELSE IF rb.eof \/ rb.lines # <<>> THEN Ok(rb.lines)
    ELSE Err("unexpected error")

Front(s) == SubSeq(s, 1, Len(s) - 1)
Last(s) == s[Len(s)]

\* the loop over the commands: push_str(command), then " &&" unless the command
\* equals the last command of the list
RECURSIVE concatenate(_, _, _)
concatenate(rest, commands, cmdline) ==
    IF rest = <<>> THEN cmdline
    ELSE concatenate(Tail(rest), commands,
                     IF Head(rest) # Last(commands)
                     THEN (cmdline \o Head(rest)) \o " &&"
                     ELSE cmdline \o Head(rest))

to_lowercase(s) ==
    CASE s = "JOB" -> "job"
      [] s = "DEMIKERNEL_JOB" -> "demikernel_job"
      [] s = "DEMIKERNEL_TARGET" -> "demikernel_target"
      [] OTHER -> s

\* the entries of the env that channel.setenv is called with
setenv(env_) == {kv \in env_ : to_lowercase(kv[1]) # "job"}

\* mutant: an error of do_run is returned before the channel is closed
runner_run_action_early_return(action, env_, rb, close) ==
    LET opened == rb.exec # "channel failed"
        result == runner_run(rb)
        closing == opened /\ result.ok
    IN  [cmdline |-> concatenate(action.commands, action.commands, ""),
         opened |-> opened,
         setenv |-> IF opened THEN setenv(env_) ELSE {},
         close_calls |-> IF closing THEN 1 ELSE 0,
         wait_close_calls |-> IF closing /\ close # "close failed" THEN 1 ELSE 0,
         close |-> close,
         rb |-> rb,
         result |-> result]

\* Runner::run for one action: the command line, the channel, the env set on it, the
\* result of do_run, and the calls of close() and wait_close() made before it returns;
\* a panic inside do_run unwinds past them
runner_run_action(action, env_, rb, close) ==
    LET opened == rb.exec # "channel failed"
        result == runner_run(rb)
        closing == opened /\ result # Panic
    IN  [cmdline |-> concatenate(action.commands, action.commands, ""),
         opened |-> opened,
         setenv |-> IF opened THEN setenv(env_) ELSE {},
         close_calls |-> IF closing THEN 1 ELSE 0,
         wait_close_calls |-> IF closing /\ close # "close failed" THEN 1 ELSE 0,
         close |-> close,
         rb |-> rb,
         result |-> result]

(***************************************************************************)
(* Scheduler: the pool, placement and worker construction.                 *)
(***************************************************************************)
\* the loop of allocate_runners: pop, push, then compare the length
RECURSIVE allocate_loop(_, _, _)
allocate_loop(guard, workers, n) ==
    IF guard = <<>> THEN [guard |-> guard, workers |-> workers]
    ELSE LET workers_ == Append(workers, Last(guard))
         IN  IF Len(workers_) = n THEN [guard |-> Front(guard), workers |-> workers_]
             ELSE allocate_loop(Front(guard), workers_, n)

\* mutant: the runners are taken first and counted afterwards
allocate_runners_greedy(guard, n) ==
    LET taken == allocate_loop(guard, <<>>, n)
    IN  IF Len(taken.workers) < n
        THEN [ok |-> FALSE, e |-> "not enough runners available", guard |-> taken.guard]
        ELSE [ok |-> TRUE, guard |-> taken.guard, workers |-> taken.workers]

\* mutant: no comparison with the length of the pool, the runners found are returned
allocate_runners_unchecked(guard, n) ==
    LET taken == allocate_loop(guard, <<>>, n)
    IN  [ok |-> TRUE, guard |-> taken.guard, workers |-> taken.workers]

\* Err when fewer than n runners are idle, else the runners taken; guard is the pool
\* as the call leaves it when the lock is dropped
allocate_runners(guard, n) ==
    IF Len(guard) < n
    THEN [ok |-> FALSE, e |-> "not enough runners available", guard |-> guard]
    ELSE LET taken == allocate_loop(guard, <<>>, n)
         IN  [ok |-> TRUE, guard |-> taken.guard, workers |-> taken.workers]

\* mutant: every barrier also counts the thread that builds it
create_barriers_plus_one(participants) ==
    [i \in DOMAIN participants |->
        [num_threads |-> participants[i] + 1, count |-> 0, generation_id |-> 0]]

\* Barrier::new(n) for each barrier size of the job
create_barriers(participants) ==
    [i \in DOMAIN participants |->
        [num_threads |-> participants[i], count |-> 0, generation_id |-> 0]]

\* std::sync::Barrier::wait: the caller that completes the count releases the others
barrier_wait(b) ==
    IF b.count + 1 < b.num_threads
    THEN [barrier |-> [b EXCEPT !.count = b.count + 1], released |-> FALSE]
    ELSE [barrier |-> [b EXCEPT !.count = 0, !.generation_id = b.generation_id + 1],
          released |-> TRUE]

\* mutant: the name given to a runner is not taken off the list of names
RECURSIVE place_no_pop(_, _, _, _)
place_no_pop(rs, task_queue_keys, worker_names, bad) ==
    IF rs = <<>> THEN worker_names
    ELSE IF Head(rs) \in bad THEN place_no_pop(Tail(rs), task_queue_keys, worker_names, bad)
    ELSE place_no_pop(Tail(rs), task_queue_keys,
                      (Head(rs) :> Last(task_queue_keys)) @@ worker_names, bad)

\* runner id -> worker name; a runner whose mutex is poisoned is passed over
RECURSIVE place(_, _, _, _)
place(rs, task_queue_keys, worker_names, bad) ==
    IF rs = <<>> THEN worker_names
    ELSE IF Head(rs) \in bad THEN place(Tail(rs), task_queue_keys, worker_names, bad)
    ELSE place(Tail(rs), Front(task_queue_keys),
               (Head(rs) :> Last(task_queue_keys)) @@ worker_names, bad)

build_placement(rs, task_queue_keys, bad) ==
    IF Len(rs) # Len(task_queue_keys) THEN Panic
    ELSE Ok(place(rs, task_queue_keys, [k \in {} |-> ""], bad))

\* mutant: the cursor of a new worker starts at 1
new_worker_cursor_one(runner, runner_name, tasks_, env_) ==
    [env |-> env_, runner |-> Some(runner), scheduled_tasks |-> tasks_,
     completed_tasks |-> <<>>, next_barrier |-> 1,
     st |-> "ready", local_gen |-> 0, runner_name |-> runner_name]

\* st and local_gen are the position of the worker's thread; runner_name is kept as
\* history (Worker::new receives it and does not store it)
new_worker(runner, runner_name, tasks_, env_) ==
    [env |-> env_, runner |-> Some(runner), scheduled_tasks |-> tasks_,
     completed_tasks |-> <<>>, next_barrier |-> 0,
     st |-> "ready", local_gen |-> 0, runner_name |-> runner_name]

\* the workers in the order schedule_tasks builds them: runners.pop() first
RECURSIVE build_workers(_, _, _)
build_workers(j, rs, placement) ==
    IF rs = <<>> THEN <<>>
    ELSE <<new_worker(Last(rs), placement[Last(rs)],
                      j.tasks_queues[placement[Last(rs)]], j.env)>>
         \o build_workers(j, Front(rs), placement)

schedule_tasks(j, rs, placement, bad) ==
    IF Len(rs) # num_workers(j) THEN Panic
    ELSE IF Len(rs) # Cardinality(DOMAIN placement) THEN Panic
    ELSE IF \E i \in DOMAIN rs : rs[i] \in bad THEN Panic
    ELSE IF \E i \in DOMAIN rs : placement[rs[i]] \notin DOMAIN j.tasks_queues THEN Panic
    ELSE Ok(build_workers(j, rs, placement))

\* Worker::run: each line gets the worker name and the action name in front
tag_lines(action, lines) ==
    [k \in DOMAIN lines |-> <<action.runs_on, action.name, lines[k]>>]

RECURSIVE task_lines(_)
task_lines(q) ==
    IF q = <<>> THEN <<>>
    ELSE (IF Head(q).type = "Action" /\ Head(q).output # None
          THEN Head(q).output[1] ELSE <<>>) \o task_lines(Tail(q))

collect_output(worker) == task_lines(worker.completed_tasks)

\* mutant: collection stops at the first worker whose thread ended with an error
RECURSIVE collect_all_until_error(_)
collect_all_until_error(workers) ==
    IF workers = <<>> \/ Head(workers).st # "done" THEN <<>>
    ELSE collect_output(Head(workers)) \o collect_all_until_error(Tail(workers))

\* mutant: the outputs are collected from the last worker to the first
RECURSIVE collect_all_reversed(_)
collect_all_reversed(workers) ==
    IF workers = <<>> THEN <<>>
    ELSE collect_all_reversed(Tail(workers)) \o collect_output(Head(workers))

\* for scheduler_worker in &schedule: the lines of each worker, in schedule order
RECURSIVE collect_all(_)
collect_all(workers) ==
    IF workers = <<>> THEN <<>>
    ELSE collect_output(Head(workers)) \o collect_all(Tail(workers))

VARIABLES
    yaml,                   \* the documents of the job file being compiled
    parameters,             \* the env handed to Job::new
    jpc,                    \* where Job::new stands: "call", "loop", "end"
    job_entries,            \* Job::new: the parsed entries not yet distributed
    tasks,                  \* Job::new: worker name -> TaskQueue
    barrier_participants,   \* Job::new: actions seen since the last barrier
    barrier_participants_,  \* Job::new: the barrier sizes so far
    compiled,               \* the results of the calls of Job::new made so far
    runners,                \* Scheduler.runners: the idle runners, a Vec
    poisoned,               \* the runners whose Mutex a panicking thread poisoned
    jobs_home,              \* which jobs directory the server was started in
    clients,                \* the request threads that connect
    pc,                     \* per request thread: where Scheduler::run stands
    job,                    \* per request thread: the Job it runs
    allocated,              \* per request thread: the runners allocate_runners returned
    schedule,               \* per request thread: its Workers, in schedule order
    barriers,               \* per request thread: the job's Barrier objects
    job_output,             \* per request thread: the collected output
    result,                 \* per request thread: what the request returned
    submitted,              \* history: the Job as Job::new returned it
    trace,                  \* history: per worker, the lines of the actions it completed
    failures,               \* history: the workers whose thread ended with an error
    checked_out,            \* history: the runners the run took from the pool
    pushed_back,            \* history: the runners the run pushed to the pool
    request,                \* per request thread: the request parse_request returned
    job_env,                \* history: the env run_job handed to Job::new, if it did
    response,               \* per request thread: what send_response wrote, if it did
    remote_exits,           \* history: <<worker, action>> of the executions that the
                            \* remote side ended with a status other than 0
    executions,             \* history: per worker, what each call of Runner::run did
    do_run,                 \* one call of Runner::do_run: the channel and the locals
    server                  \* HttpServer::run: the handler threads and the accept loop

jvars == <<yaml, parameters, jpc, job_entries, tasks, barrier_participants,
           barrier_participants_, compiled>>

svars == <<runners, poisoned, jobs_home, clients, pc, job, allocated, schedule,
           barriers, job_output, result, submitted, trace, failures, checked_out, pushed_back,
          request, job_env, response, remote_exits, executions>>

xvars == <<do_run, server>>

vars == <<jvars, svars, xvars>>

NoJob == new_job({}, [k \in {} |-> <<>>], <<>>)

\* the scheduler as Scheduler::new leaves it, no request accepted yet
SchedulerInit ==
    /\ runners = [i \in 1..NumRunners |-> i]
    /\ poisoned = {}
    /\ pc = [t \in Threads |-> "idle"]
    /\ job = [t \in Threads |-> NoJob]
    /\ allocated = [t \in Threads |-> <<>>]
    /\ schedule = [t \in Threads |-> <<>>]
    /\ barriers = [t \in Threads |-> <<>>]
    /\ job_output = [t \in Threads |-> <<>>]
    /\ result = [t \in Threads |-> None]
    /\ submitted = [t \in Threads |-> NoJob]
    /\ trace = [t \in Threads |-> <<>>]
    /\ failures = [t \in Threads |-> {}]
    /\ checked_out = [t \in Threads |-> <<>>]
    /\ pushed_back = [t \in Threads |-> <<>>]
    /\ request = [t \in Threads |-> None]
    /\ job_env = [t \in Threads |-> None]
    /\ response = [t \in Threads |-> None]
    /\ remote_exits = [t \in Threads |-> {}]
    /\ executions = [t \in Threads |-> <<>>]

\* no job file is being compiled on its own
JobIdle ==
    /\ yaml = <<>>
    /\ parameters = {}
    /\ jpc = "end"
    /\ job_entries = <<>>
    /\ tasks = [k \in {} |-> <<>>]
    /\ barrier_participants = 0
    /\ barrier_participants_ = <<>>
    /\ compiled = <<>>

EmptyMap == [k \in {} |-> <<>>]

(***************************************************************************)
(* Runner::do_run as a process: one read_exact call per step.              *)
(***************************************************************************)
\* the reads of a stream that are told apart before every later read ends alike
MaxReads == 2

LineFeed == "\n"

\* a byte that String::from_utf8 refuses
NotUtf8 == "0xFF"

Bytes == {"h", LineFeed, NotUtf8}

\* the error kinds read_inboud_stream breaks on
BreakKinds == {"UnexpectedEof", "TimedOut"}

\* an error of any other kind, a lost connection for one
OtherKind == "Other"

\* a stream of the channel: its first reads, each a byte or an error of another
\* kind, and the way every read after them ends
Streams ==
    [reads : SeqsUpTo(Bytes \cup {OtherKind}, MaxReads), then : BreakKinds \cup {OtherKind}]

\* the remote side of one do_run call: what exec answers, the two streams, and
\* whether the channel is at end of file when the streams were read
Channels == [exec : {"ok", "exec failed"}, stdout : Streams, stderr : Streams, eof : BOOLEAN]

NoChannel ==
    [exec |-> "ok", stdout |-> [reads |-> <<>>, then |-> "UnexpectedEof"],
     stderr |-> [reads |-> <<>>, then |-> "UnexpectedEof"], eof |-> TRUE]

\* stream.read_exact(&mut buf) with a buffer of one byte
read_exact(stream) ==
    IF stream.reads # <<>>
    THEN [result |-> IF Head(stream.reads) = OtherKind THEN Err(OtherKind)
                     ELSE Ok(Head(stream.reads)),
          stream |-> [stream EXCEPT !.reads = Tail(@)]]
    ELSE [result |-> Err(stream.then), stream |-> stream]

RECURSIVE split(_, _)
\* s.split('\n'): the pieces between the line feeds, the empty ones too
split(bytes_, piece) ==
    IF bytes_ = <<>> THEN <<piece>>
    ELSE IF Head(bytes_) = LineFeed THEN <<piece>> \o split(Tail(bytes_), "")
    ELSE split(Tail(bytes_), piece \o Head(bytes_))

\* from_utf8(bytes).unwrap(), split into lines, empty lines removed, the stream
\* name put before each line
process_bytes(stream_name, bytes_) ==
    IF \E k \in DOMAIN bytes_ : bytes_[k] = NotUtf8 THEN Panic
    ELSE LET lines == SelectSeq(split(bytes_, ""), LAMBDA s : s # "")
         IN  Ok([k \in DOMAIN lines |-> ("[" \o stream_name \o "] ") \o lines[k]])

\* the locals of do_run and of the read_inboud_stream call it is in
DoRunCall(pc_, channel) ==
    [pc |-> pc_, channel |-> channel, stream |-> "stdout", read |-> None, bytes |-> <<>>,
     stdout_bytes |-> <<>>, stderr_bytes |-> <<>>, output |-> <<>>, result |-> None,
     warned |-> FALSE]

\* no command is being run step by step
DoRunIdle == do_run = DoRunCall("idle", NoChannel)

\* channel.exec(&cmdline) and the match on it
DoRunExec ==
    /\ do_run.pc = "exec"
    /\ do_run' = IF do_run.channel.exec = "ok"
                 THEN [do_run EXCEPT !.pc = "read_exact", !.stream = "stdout"]
                 ELSE [do_run EXCEPT !.pc = "returned",
                                     !.result = Some(Err(do_run.channel.exec))]
    /\ UNCHANGED <<jvars, svars, server>>

\* read_inboud_stream: the read_exact call of one loop iteration
ReadExact ==
    /\ do_run.pc = "read_exact"
    /\ LET r == read_exact(do_run.channel[do_run.stream])
       IN  do_run' = [do_run EXCEPT !.pc = "match", !.read = Some(r.result),
                                    !.channel[do_run.stream] = r.stream]
    /\ UNCHANGED <<jvars, svars, server>>

\* read_inboud_stream: the match on what read_exact returned; a break returns the
\* bytes to do_run, which reads stderr after stdout
MatchRead ==
    /\ do_run.pc = "match"
    /\ LET r == do_run.read[1]
       IN  do_run' =
               IF r.ok
               THEN [do_run EXCEPT !.pc = "read_exact", !.read = None,
                                   !.bytes = Append(@, r.v)]
               ELSE IF r.e \in BreakKinds
               THEN IF do_run.stream = "stdout"
                    THEN [do_run EXCEPT !.pc = "read_exact", !.read = None,
                                        !.stream = "stderr",
                                        !.stdout_bytes = do_run.bytes, !.bytes = <<>>]
                    ELSE [do_run EXCEPT !.pc = "process", !.read = None,
                                        !.stderr_bytes = do_run.bytes, !.bytes = <<>>]
               ELSE [do_run EXCEPT !.pc = "read_exact", !.read = None, !.warned = TRUE]
    /\ UNCHANGED <<jvars, svars, server>>

\* do_run after both streams were read: the bytes are decoded, then eof() is asked;
\* with output and no end of file the loop reads on, and the remote side is taken
\* to be at end of file by then
ProcessOutput ==
    /\ do_run.pc = "process"
    /\ LET stdout == IF Len(do_run.stdout_bytes) > 0
                     THEN process_bytes("stdout", do_run.stdout_bytes) ELSE Ok(<<>>)
           stderr == IF Len(do_run.stderr_bytes) > 0
                     THEN process_bytes("stderr", do_run.stderr_bytes) ELSE Ok(<<>>)
       IN  IF ~stdout.ok \/ ~stderr.ok
           THEN do_run' = [do_run EXCEPT !.pc = "returned", !.result = Some(Panic)]
           ELSE LET output == do_run.output \o stdout.v \o stderr.v
                IN  IF do_run.channel.eof
                    THEN do_run' = [do_run EXCEPT !.pc = "returned", !.output = output,
                                                  !.result = Some(Ok(output))]
                    ELSE IF output = <<>>
                    THEN do_run' = [do_run EXCEPT !.pc = "returned",
                                                  !.result = Some(Err("unexpected error"))]
                    ELSE do_run' = [do_run EXCEPT !.pc = "read_exact", !.stream = "stdout",
                                                  !.output = output, !.stdout_bytes = <<>>,
                                                  !.stderr_bytes = <<>>, !.channel.eof = TRUE]
    /\ UNCHANGED <<jvars, svars, server>>

(***************************************************************************)
(* HttpServer::run: the accept loop and the handler threads.               *)
(***************************************************************************)
THREAD_MAX == 4

\* the connections the clients open
MaxConnections == 8

Handlers == 1..MaxConnections

\* the check after each connection: whether the threads are joined now
join_due_never(threads) == FALSE

join_due(threads) == ~(Len(threads) < THREAD_MAX)

\* threads: the join handles in the order they were pushed; handler: where each
\* spawned thread is in its closure; spawned: the threads spawned so far
ServerState(pc_, threads, handler, spawned, accept_failed) ==
    [pc |-> pc_, threads |-> threads, handler |-> handler, spawned |-> spawned,
     accept_failed |-> accept_failed]

\* the listener is bound and no connection has come in
ServerListening ==
    server = ServerState("accept", <<>>, [h \in Handlers |-> "unborn"], 0, FALSE)

\* no server is running
ServerIdle ==
    server = ServerState("idle", <<>>, [h \in Handlers |-> "unborn"], 0, FALSE)

\* incoming() yields a connection: a thread is spawned and pushed, then the
\* length check
Accept ==
    /\ server.pc = "accept"
    /\ server.spawned < MaxConnections
    /\ LET h == server.spawned + 1
           threads == Append(server.threads, h)
       IN  server' = [server EXCEPT !.threads = threads, !.spawned = h,
                                    !.handler[h] = "parse_request",
                                    !.pc = IF join_due(threads) THEN "join" ELSE "accept"]
    /\ UNCHANGED <<jvars, svars, do_run>>

\* incoming() yields an error: it is logged, then the length check
AcceptFailed ==
    /\ server.pc = "accept"
    /\ server' = [server EXCEPT !.accept_failed = TRUE,
                                !.pc = IF join_due(server.threads) THEN "join" ELSE "accept"]
    /\ UNCHANGED <<jvars, svars, do_run>>

\* the closure of a handler thread: parse_request()?, the dispatcher (which may
\* panic), send_response(result)?
HandlerStep(h) ==
    /\ server.handler[h] \in {"parse_request", "dispatcher", "send_response"}
    /\ \E next \in CASE server.handler[h] = "parse_request" -> {"dispatcher", "finished"}
                     [] server.handler[h] = "dispatcher" -> {"send_response", "finished"}
                     [] OTHER -> {"finished"} :
          server' = [server EXCEPT !.handler[h] = next]
    /\ UNCHANGED <<jvars, svars, do_run>>

\* while let Some(thread) = threads.pop(): the last thread pushed is joined first;
\* the loop over incoming() goes on when the vector is empty
JoinThread ==
    /\ server.pc = "join"
    /\ server.threads # <<>>
    /\ server.handler[Last(server.threads)] = "finished"
    /\ server' = [server EXCEPT !.threads = Front(@),
                                !.pc = IF Front(server.threads) = <<>> THEN "accept"
                                       ELSE "join"]
    /\ UNCHANGED <<jvars, svars, do_run>>

(***************************************************************************)
(* Job::new as a process: parse, then one loop iteration per step.         *)
(***************************************************************************)
JobInit ==
    /\ yaml \in JobFiles
    /\ parameters \in Envs
    /\ jpc = "call"
    /\ job_entries = <<>>
    /\ tasks = EmptyMap
    /\ barrier_participants = 0
    /\ barrier_participants_ = <<>>
    /\ compiled = <<>>
    /\ SchedulerInit
    /\ DoRunIdle
    /\ ServerIdle
    /\ jobs_home = "none"
    /\ clients = {}

JobParse ==
    /\ UNCHANGED <<svars, xvars>>
    /\ jpc = "call"
    /\ LET r == parse(yaml)
       IN  IF r.ok
           THEN /\ job_entries' = r.v
                /\ jpc' = "loop"
                /\ UNCHANGED compiled
           ELSE /\ compiled' = Append(compiled, r)
                /\ jpc' = "end"
                /\ UNCHANGED job_entries
    /\ tasks' = EmptyMap
    /\ barrier_participants' = 0
    /\ barrier_participants_' = <<>>
    /\ UNCHANGED <<yaml, parameters>>

\* mutant: the action is queued and not counted as a participant
JobLoopActionNotCounted ==
    /\ UNCHANGED <<svars, xvars>>
    /\ jpc = "loop"
    /\ job_entries # <<>>
    /\ Head(job_entries).type = "Action"
    /\ tasks' = push_action(tasks, Head(job_entries))
    /\ job_entries' = Tail(job_entries)
    /\ UNCHANGED <<yaml, parameters, jpc, barrier_participants, barrier_participants_, compiled>>

JobLoopAction ==
    /\ UNCHANGED <<svars, xvars>>
    /\ jpc = "loop"
    /\ job_entries # <<>>
    /\ Head(job_entries).type = "Action"
    /\ barrier_participants' = barrier_participants + 1
    /\ tasks' = push_action(tasks, Head(job_entries))
    /\ job_entries' = Tail(job_entries)
    /\ UNCHANGED <<yaml, parameters, jpc, barrier_participants_, compiled>>

\* mutant: the count of participants is not reset at a barrier
JobLoopBarrierNoReset ==
    /\ UNCHANGED <<svars, xvars>>
    /\ jpc = "loop"
    /\ job_entries # <<>>
    /\ Head(job_entries).type = "Barrier"
    /\ \E order \in Perms(DOMAIN tasks) :
          tasks' = push_barrier(tasks, order, barrier_participants)
    /\ barrier_participants_' = Append(barrier_participants_, barrier_participants)
    /\ job_entries' = Tail(job_entries)
    /\ UNCHANGED <<yaml, parameters, jpc, barrier_participants, compiled>>

JobLoopBarrier ==
    /\ UNCHANGED <<svars, xvars>>
    /\ jpc = "loop"
    /\ job_entries # <<>>
    /\ Head(job_entries).type = "Barrier"
    /\ \E order \in Perms(DOMAIN tasks) :
          tasks' = push_barrier(tasks, order, barrier_participants)
    /\ barrier_participants_' = Append(barrier_participants_, barrier_participants)
    /\ barrier_participants' = 0
    /\ job_entries' = Tail(job_entries)
    /\ UNCHANGED <<yaml, parameters, jpc, compiled>>

JobLoopEnd ==
    /\ UNCHANGED <<svars, xvars>>
    /\ jpc = "loop"
    /\ job_entries = <<>>
    /\ compiled' = Append(compiled, Ok(new_job(parameters, tasks, barrier_participants_)))
    /\ jpc' = "end"
    /\ UNCHANGED <<yaml, parameters, job_entries, tasks, barrier_participants,
                   barrier_participants_>>

\* the same job file is requested again
JobAgain ==
    /\ UNCHANGED <<svars, xvars>>
    /\ jpc = "end"
    /\ Len(compiled) < MaxCompiles
    /\ jpc' = "call"
    /\ UNCHANGED <<yaml, parameters, job_entries, tasks, barrier_participants,
                   barrier_participants_, compiled>>

JobNext == JobParse \/ JobLoopAction \/ JobLoopBarrier \/ JobLoopEnd \/ JobAgain

SpecJob == JobInit /\ [][JobNext]_vars

(***************************************************************************)
(* A request thread: run_job calls Job::new, then Scheduler::run.          *)
(***************************************************************************)
\* Job::new stores the env it is given as it is
with_env(j, env_) == [j EXCEPT !.env = env_]

\* a connection is accepted: parse_request, the dispatcher, run_job up to Scheduler::run
RunJob(t) ==
    /\ t \in clients
    /\ pc[t] = "idle"
    /\ \E req \in Requests(jobs_home) :
          /\ request' = [request EXCEPT ![t] = Some(req)]
          /\ LET d == dispatcher(req)
             IN  IF ~d.ok
                 THEN /\ job' = [job EXCEPT ![t] = NoJob]
                      /\ submitted' = [submitted EXCEPT ![t] = NoJob]
                      /\ barriers' = [barriers EXCEPT ![t] = <<>>]
                      /\ result' = [result EXCEPT ![t] = Some(d)]
                      /\ job_env' = [job_env EXCEPT ![t] = None]
                      /\ pc' = [pc EXCEPT ![t] = "returned"]
                 ELSE /\ job_env' = [job_env EXCEPT ![t] = Some(d.v.env)]
                      /\ \E r \in JobsDirectory(jobs_home) :
                            IF r.ok
                            THEN /\ job' = [job EXCEPT ![t] = with_env(r.v, d.v.env)]
                                 /\ submitted' = [submitted EXCEPT ![t] = with_env(r.v, d.v.env)]
                                 /\ barriers' = [barriers EXCEPT ![t] =
                                                    create_barriers(r.v.barrier_participants)]
                                 /\ result' = [result EXCEPT ![t] = None]
                                 /\ pc' = [pc EXCEPT ![t] = "allocate"]
                            ELSE /\ job' = [job EXCEPT ![t] = NoJob]
                                 /\ submitted' = [submitted EXCEPT ![t] = NoJob]
                                 /\ barriers' = [barriers EXCEPT ![t] = <<>>]
                                 /\ result' = [result EXCEPT ![t] = Some(r)]
                                 /\ pc' = [pc EXCEPT ![t] = "returned"]
    /\ job_output' = [job_output EXCEPT ![t] = <<>>]
    /\ trace' = [trace EXCEPT ![t] = <<>>]
    /\ failures' = [failures EXCEPT ![t] = {}]
    /\ checked_out' = [checked_out EXCEPT ![t] = <<>>]
    /\ pushed_back' = [pushed_back EXCEPT ![t] = <<>>]
    /\ UNCHANGED <<runners, poisoned, jobs_home, clients, allocated, schedule>>
    /\ executions' = [executions EXCEPT ![t] = <<>>]
    /\ UNCHANGED <<response, remote_exits>>
    /\ UNCHANGED <<jvars, xvars>>

\* one attempt of the allocation loop of Scheduler::run, under the pool lock
AllocateRunners(t) ==
    /\ pc[t] = "allocate"
    /\ LET r == allocate_runners(runners, num_workers(job[t]))
       IN  /\ runners' = r.guard
           /\ IF r.ok
              THEN /\ allocated' = [allocated EXCEPT ![t] = r.workers]
                   /\ checked_out' = [checked_out EXCEPT ![t] = r.workers]
                   /\ pc' = [pc EXCEPT ![t] = "schedule"]
              ELSE /\ pc' = [pc EXCEPT ![t] = "sleep"]
                   /\ UNCHANGED <<allocated, checked_out>>
    /\ UNCHANGED <<poisoned, jobs_home, clients, job, schedule, barriers,
                   job_output, result, submitted, trace, failures, pushed_back>>
    /\ UNCHANGED <<request, job_env, response, remote_exits, executions>>
    /\ UNCHANGED <<jvars, xvars>>

\* sleep(SLEEP_INTERVAL) is over: try again
Sleep(t) ==
    /\ pc[t] = "sleep"
    /\ pc' = [pc EXCEPT ![t] = "allocate"]
    /\ UNCHANGED <<runners, poisoned, jobs_home, clients, job, allocated, schedule,
                   barriers, job_output, result, submitted, trace, failures, checked_out, pushed_back>>
    /\ UNCHANGED <<request, job_env, response, remote_exits, executions>>
    /\ UNCHANGED <<jvars, xvars>>

\* build_placement and schedule_tasks, then the worker threads are spawned; a failed
\* assertion panics the request thread, which drops the runners it holds
ScheduleTasks(t) ==
    /\ pc[t] = "schedule"
    /\ \E task_queue_keys \in Perms(get_task_names(job[t])) :
          LET placement == build_placement(allocated[t], task_queue_keys, poisoned)
              workers == IF placement.ok
                         THEN schedule_tasks(job[t], allocated[t], placement.v, poisoned)
                         ELSE placement
          IN  IF workers.ok
              THEN /\ schedule' = [schedule EXCEPT ![t] = workers.v]
                   /\ trace' = [trace EXCEPT ![t] = [i \in DOMAIN workers.v |-> <<>>]]
                   /\ executions' = [executions EXCEPT ![t] =
                                         [i \in DOMAIN workers.v |-> <<>>]]
                   /\ job' = [job EXCEPT ![t].tasks_queues = [k \in {} |-> <<>>]]
                   /\ pc' = [pc EXCEPT ![t] = "join"]
                   /\ UNCHANGED result
              ELSE /\ result' = [result EXCEPT ![t] = Some(Panic)]
                   /\ job' = [job EXCEPT ![t] = NoJob]
                   /\ pc' = [pc EXCEPT ![t] = "returned"]
                   /\ UNCHANGED <<schedule, trace, executions>>
    /\ allocated' = [allocated EXCEPT ![t] = <<>>]
    /\ UNCHANGED <<runners, poisoned, jobs_home, clients, barriers, job_output,
                   submitted, failures, checked_out, pushed_back>>
    /\ UNCHANGED <<request, job_env, response, remote_exits>>
    /\ UNCHANGED <<jvars, xvars>>

(***************************************************************************)
(* A worker thread: the loop of the closure spawned by Scheduler::run.     *)
(* The steps of a worker between two barriers touch its own state only.    *)
(***************************************************************************)
\* pop_task returns None: the thread ends with Ok(())
WorkerDone(t, i) ==
    /\ pc[t] = "join"
    /\ i \in DOMAIN schedule[t]
    /\ schedule[t][i].st = "ready"
    /\ schedule[t][i].scheduled_tasks = <<>>
    /\ schedule' = [schedule EXCEPT ![t][i].st = "done"]
    /\ UNCHANGED <<runners, poisoned, jobs_home, clients, pc, job, allocated, barriers,
                   job_output, result, submitted, trace, failures, checked_out, pushed_back>>
    /\ UNCHANGED <<request, job_env, response, remote_exits, executions>>
    /\ UNCHANGED <<jvars, xvars>>

\* mutant: the completed action is pushed to the front of the completed tasks
run_ok_push_front(w, action, lines) ==
    [w EXCEPT !.scheduled_tasks = Tail(@),
              !.completed_tasks = <<set_output(action, tag_lines(action, lines))>> \o @]

\* what Worker::run and push_task make of a worker, for each way Runner::run can end:
\* lines, an error, or bytes that are no UTF-8 (process_bytes unwraps and panics)
run_ok(w, action, lines) ==
    [w EXCEPT !.scheduled_tasks = Tail(@),
              !.completed_tasks = Append(@, set_output(action, tag_lines(action, lines)))]
\* mutant: the thread goes on with the next task after an error
run_err_continue(w) == [w EXCEPT !.scheduled_tasks = Tail(@)]
run_err(w) == [w EXCEPT !.scheduled_tasks = Tail(@), !.st = "failed"]
run_panic(w) == [w EXCEPT !.scheduled_tasks = Tail(@), !.st = "panicked"]

\* pop_task returns an Action: Worker::run, then push_task
RunAction(t, i) ==
    /\ pc[t] = "join"
    /\ i \in DOMAIN schedule[t]
    /\ schedule[t][i].st = "ready"
    /\ schedule[t][i].scheduled_tasks # <<>>
    /\ Head(schedule[t][i].scheduled_tasks).type = "Action"
    /\ LET w == schedule[t][i]
           action == Head(w.scheduled_tasks)
       IN  \E rb \in Remote(jobs_home), close \in CloseOutcomes(jobs_home) :
              /\ remote_exits' = [remote_exits EXCEPT ![t] =
                     IF rb.exec = "ok" /\ rb.exit_status # 0
                     THEN @ \cup {<<i, action.name>>} ELSE @]
              /\ executions' = [executions EXCEPT ![t][i] =
                     Append(@, runner_run_action(action, w.env, rb, close))]
              /\ LET r == runner_run_action(action, w.env, rb, close).result
                 IN  IF r.ok
                     THEN /\ schedule' = [schedule EXCEPT ![t][i] = run_ok(w, action, r.v)]
                          /\ trace' = [trace EXCEPT ![t][i] = @ \o tag_lines(action, r.v)]
                          /\ UNCHANGED <<poisoned, failures>>
                     ELSE IF r = Panic
                     THEN /\ schedule' = [schedule EXCEPT ![t][i] = run_panic(w)]
                          /\ failures' = [failures EXCEPT ![t] = @ \cup {i}]
                          /\ poisoned' = poisoned \cup {w.runner[1]}
                          /\ UNCHANGED trace
                     ELSE /\ schedule' = [schedule EXCEPT ![t][i] = run_err(w)]
                          /\ failures' = [failures EXCEPT ![t] = @ \cup {i}]
                          /\ UNCHANGED <<poisoned, trace>>
    /\ UNCHANGED <<runners, jobs_home, clients, pc, job, allocated, barriers,
                   job_output, result, submitted, checked_out, pushed_back>>
    /\ UNCHANGED <<request, job_env, response>>
    /\ UNCHANGED <<jvars, xvars>>

\* pop_task returns a Barrier: wait_others, up to the point where wait() blocks
WaitOthers(t, i) ==
    /\ pc[t] = "join"
    /\ i \in DOMAIN schedule[t]
    /\ schedule[t][i].st = "ready"
    /\ schedule[t][i].scheduled_tasks # <<>>
    /\ Head(schedule[t][i].scheduled_tasks).type = "Barrier"
    /\ LET w == schedule[t][i]
           q == w.scheduled_tasks
       IN  IF w.next_barrier + 1 \notin DOMAIN barriers[t]
           THEN /\ schedule' = [schedule EXCEPT ![t][i] =
                        [w EXCEPT !.scheduled_tasks = Tail(q), !.st = "panicked"]]
                /\ UNCHANGED barriers
           ELSE LET b == barrier_wait(barriers[t][w.next_barrier + 1])
                IN  /\ barriers' = [barriers EXCEPT ![t][w.next_barrier + 1] = b.barrier]
                    /\ schedule' = [schedule EXCEPT ![t][i] =
                          IF b.released
                          THEN [w EXCEPT !.scheduled_tasks = Tail(q),
                                         !.next_barrier = w.next_barrier + 1]
                          ELSE [w EXCEPT !.scheduled_tasks = Tail(q), !.st = "waiting",
                                         !.local_gen =
                                            barriers[t][w.next_barrier + 1].generation_id]]
    /\ UNCHANGED <<runners, poisoned, jobs_home, clients, pc, job, allocated,
                   job_output, result, submitted, trace, failures, checked_out, pushed_back>>
    /\ UNCHANGED <<request, job_env, response, remote_exits, executions>>
    /\ UNCHANGED <<jvars, xvars>>

\* the barrier this worker waits on was released: wait() returns, the cursor advances
BarrierWake(t, i) ==
    /\ pc[t] = "join"
    /\ i \in DOMAIN schedule[t]
    /\ schedule[t][i].st = "waiting"
    /\ barriers[t][schedule[t][i].next_barrier + 1].generation_id # schedule[t][i].local_gen
    /\ schedule' = [schedule EXCEPT ![t][i].st = "ready",
                                    ![t][i].next_barrier = @ + 1]
    /\ UNCHANGED <<runners, poisoned, jobs_home, clients, pc, job, allocated, barriers,
                   job_output, result, submitted, trace, failures, checked_out, pushed_back>>
    /\ UNCHANGED <<request, job_env, response, remote_exits, executions>>
    /\ UNCHANGED <<jvars, xvars>>

(***************************************************************************)
(* Scheduler::run after the scope: join, collect, release, return.         *)
(***************************************************************************)
Finished(w) == w.st \in {"done", "failed", "panicked"}

\* mutant: the outputs are collected as soon as one worker thread has ended
JoinAndCollectEarly(t) ==
    /\ pc[t] = "join"
    /\ \E i \in DOMAIN schedule[t] : Finished(schedule[t][i])
    /\ job_output' = [job_output EXCEPT ![t] = collect_all(schedule[t])]
    /\ pc' = [pc EXCEPT ![t] = "release"]
    /\ UNCHANGED <<runners, poisoned, jobs_home, clients, job, allocated, schedule,
                   barriers, result, submitted, trace, failures, checked_out, pushed_back>>
    /\ UNCHANGED <<request, job_env, response, remote_exits, executions>>
    /\ UNCHANGED <<jvars, xvars>>

\* every worker thread was joined; the outputs are collected in schedule order
JoinAndCollect(t) ==
    /\ pc[t] = "join"
    /\ \A i \in DOMAIN schedule[t] : Finished(schedule[t][i])
    /\ job_output' = [job_output EXCEPT ![t] = collect_all(schedule[t])]
    /\ pc' = [pc EXCEPT ![t] = "release"]
    /\ UNCHANGED <<runners, poisoned, jobs_home, clients, job, allocated, schedule,
                   barriers, result, submitted, trace, failures, checked_out, pushed_back>>
    /\ UNCHANGED <<request, job_env, response, remote_exits, executions>>
    /\ UNCHANGED <<jvars, xvars>>

\* one iteration of the release loop: take_runner, then push under the pool lock
ReleaseRunner(t) ==
    /\ pc[t] = "release"
    /\ \E i \in DOMAIN schedule[t] :
          /\ schedule[t][i].runner # None
          /\ \A k \in 1..(i - 1) : schedule[t][k].runner = None
          /\ runners' = Append(runners, schedule[t][i].runner[1])
          /\ pushed_back' = [pushed_back EXCEPT ![t] = Append(@, schedule[t][i].runner[1])]
          /\ schedule' = [schedule EXCEPT ![t][i].runner = None]
    /\ UNCHANGED <<poisoned, jobs_home, clients, pc, job, allocated, barriers,
                   job_output, result, submitted, trace, failures, checked_out>>
    /\ UNCHANGED <<request, job_env, response, remote_exits, executions>>
    /\ UNCHANGED <<jvars, xvars>>

\* mutant: the error of a worker becomes the result of the run
ReturnWorkerError(t) ==
    /\ pc[t] = "release"
    /\ \A i \in DOMAIN schedule[t] : schedule[t][i].runner = None
    /\ result' = [result EXCEPT ![t] =
                     IF failures[t] = {} THEN Some(Ok(job_output[t]))
                     ELSE Some(Err("worker failed"))]
    /\ schedule' = [schedule EXCEPT ![t] = <<>>]
    /\ job' = [job EXCEPT ![t] = NoJob]
    /\ barriers' = [barriers EXCEPT ![t] = <<>>]
    /\ pc' = [pc EXCEPT ![t] = "returned"]
    /\ UNCHANGED <<runners, poisoned, jobs_home, clients, allocated, job_output,
                   submitted, trace, failures, checked_out, pushed_back>>
    /\ UNCHANGED <<request, job_env, response, remote_exits, executions>>
    /\ UNCHANGED <<jvars, xvars>>

\* Ok(output): the schedule, the job and the barriers are dropped
Return(t) ==
    /\ pc[t] = "release"
    /\ \A i \in DOMAIN schedule[t] : schedule[t][i].runner = None
    /\ result' = [result EXCEPT ![t] = Some(Ok(job_output[t]))]
    /\ schedule' = [schedule EXCEPT ![t] = <<>>]
    /\ job' = [job EXCEPT ![t] = NoJob]
    /\ barriers' = [barriers EXCEPT ![t] = <<>>]
    /\ pc' = [pc EXCEPT ![t] = "returned"]
    /\ UNCHANGED <<runners, poisoned, jobs_home, clients, allocated, job_output,
                   submitted, trace, failures, checked_out, pushed_back>>
    /\ UNCHANGED <<request, job_env, response, remote_exits, executions>>
    /\ UNCHANGED <<jvars, xvars>>

\* send_response writes the status and the body to the client
SendResponse(t) ==
    /\ pc[t] = "returned"
    /\ result[t][1] # Panic
    /\ response' = [response EXCEPT ![t] = Some(send_response(result[t][1]))]
    /\ pc' = [pc EXCEPT ![t] = "responded"]
    /\ UNCHANGED <<runners, poisoned, jobs_home, clients, job, allocated, schedule,
                   barriers, job_output, result, submitted, trace, failures,
                   checked_out, pushed_back, request, job_env, remote_exits,
                   executions>>
    /\ UNCHANGED <<jvars, xvars>>

\* the request thread ends, after its response or by the panic that unwinds it; the
\* next connection gets a new thread
ThreadExit(t) ==
    /\ \/ pc[t] = "responded"
       \/ pc[t] = "returned" /\ result[t][1] = Panic
    /\ pc' = [pc EXCEPT ![t] = "idle"]
    /\ result' = [result EXCEPT ![t] = None]
    /\ job_output' = [job_output EXCEPT ![t] = <<>>]
    /\ submitted' = [submitted EXCEPT ![t] = NoJob]
    /\ trace' = [trace EXCEPT ![t] = <<>>]
    /\ failures' = [failures EXCEPT ![t] = {}]
    /\ checked_out' = [checked_out EXCEPT ![t] = <<>>]
    /\ pushed_back' = [pushed_back EXCEPT ![t] = <<>>]
    /\ request' = [request EXCEPT ![t] = None]
    /\ job_env' = [job_env EXCEPT ![t] = None]
    /\ response' = [response EXCEPT ![t] = None]
    /\ remote_exits' = [remote_exits EXCEPT ![t] = {}]
    /\ executions' = [executions EXCEPT ![t] = <<>>]
    /\ UNCHANGED <<runners, poisoned, jobs_home, clients, job, allocated, schedule, barriers>>
    /\ UNCHANGED <<jvars, xvars>>

Next ==
    \/ \E t \in Threads : RunJob(t)
    \/ \E t \in Threads : AllocateRunners(t)
    \/ \E t \in Threads : Sleep(t)
    \/ \E t \in Threads : ScheduleTasks(t)
    \/ \E t \in Threads, i \in 1..NumRunners : WorkerDone(t, i)
    \/ \E t \in Threads, i \in 1..NumRunners : RunAction(t, i)
    \/ \E t \in Threads, i \in 1..NumRunners : WaitOthers(t, i)
    \/ \E t \in Threads, i \in 1..NumRunners : BarrierWake(t, i)
    \/ \E t \in Threads : JoinAndCollect(t)
    \/ \E t \in Threads : ReleaseRunner(t)
    \/ \E t \in Threads : Return(t)
    \/ \E t \in Threads : SendResponse(t)
    \/ \E t \in Threads : ThreadExit(t)

\* concurrent requests for small jobs
Init ==
    /\ JobIdle
    /\ SchedulerInit
    /\ DoRunIdle
    /\ ServerIdle
    /\ jobs_home = "small"
    /\ clients = Threads

Spec == Init /\ [][Next]_vars

\* one request at a time, jobs of several stages
InitStages ==
    /\ JobIdle
    /\ SchedulerInit
    /\ DoRunIdle
    /\ ServerIdle
    /\ jobs_home = "staged"
    /\ clients = {1}

SpecStages == InitStages /\ [][Next]_vars

\* one request at a time, requests and remote executions of every kind
InitTrigger ==
    /\ JobIdle
    /\ SchedulerInit
    /\ DoRunIdle
    /\ ServerIdle
    /\ jobs_home = "trigger"
    /\ clients = {1}

SpecTrigger == InitTrigger /\ [][Next]_vars

\* one request at a time, actions of every command list, channels that fail to close
InitRunner ==
    /\ JobIdle
    /\ SchedulerInit
    /\ DoRunIdle
    /\ ServerIdle
    /\ jobs_home = "runner"
    /\ clients = {1}

SpecRunner == InitRunner /\ [][Next]_vars

\* concurrent requests that compete for the runners
InitPool ==
    /\ JobIdle
    /\ SchedulerInit
    /\ DoRunIdle
    /\ ServerIdle
    /\ jobs_home = "pool"
    /\ clients = Threads

SpecPool == InitPool /\ [][Next]_vars

\* concurrent requests, one of them for a job that needs more runners than exist
InitBig ==
    /\ JobIdle
    /\ SchedulerInit
    /\ DoRunIdle
    /\ ServerIdle
    /\ jobs_home = "big"
    /\ clients = Threads

SpecBig == InitBig /\ [][Next]_vars

\* a thread that can take a step eventually takes it: the request thread inside
\* Scheduler::run and send_response, and every worker thread it spawned
Fairness ==
    \A t \in Threads :
        /\ WF_vars(AllocateRunners(t))
        /\ WF_vars(Sleep(t))
        /\ WF_vars(ScheduleTasks(t))
        /\ WF_vars(JoinAndCollect(t))
        /\ WF_vars(ReleaseRunner(t))
        /\ WF_vars(Return(t))
        /\ WF_vars(SendResponse(t))
        /\ WF_vars(ThreadExit(t))
        /\ \A i \in 1..NumRunners :
              /\ WF_vars(WorkerDone(t, i))
              /\ WF_vars(RunAction(t, i))
              /\ WF_vars(WaitOthers(t, i))
              /\ WF_vars(BarrierWake(t, i))

\* one request at a time, single-worker jobs of several stages, fair scheduling
InitSingle ==
    /\ JobIdle
    /\ SchedulerInit
    /\ DoRunIdle
    /\ ServerIdle
    /\ jobs_home = "single"
    /\ clients = {1}

SpecSingle == InitSingle /\ [][Next]_vars /\ Fairness

\* concurrent requests that compete for the runners, fair scheduling
SpecPoolFair == InitPool /\ [][Next]_vars /\ Fairness

(***************************************************************************)
(* One command run step by step, and the server on its own.                *)
(***************************************************************************)
ReadNext == DoRunExec \/ ReadExact \/ MatchRead \/ ProcessOutput

\* do_run was called on a channel; the remote side is any of Channels
InitRead ==
    /\ JobIdle
    /\ SchedulerInit /\ ServerIdle
    /\ do_run \in {DoRunCall("exec", channel) : channel \in Channels}
    /\ jobs_home = "none"
    /\ clients = {}

\* the thread that called do_run keeps running
ReadFairness ==
    /\ WF_vars(DoRunExec)
    /\ WF_vars(ReadExact)
    /\ WF_vars(MatchRead)
    /\ WF_vars(ProcessOutput)

SpecRead == InitRead /\ [][ReadNext]_vars /\ ReadFairness

ServerNext == Accept \/ AcceptFailed \/ JoinThread \/ \E h \in Handlers : HandlerStep(h)

InitServer ==
    /\ JobIdle
    /\ SchedulerInit /\ DoRunIdle
    /\ ServerListening
    /\ jobs_home = "none"
    /\ clients = {}

SpecServer == InitServer /\ [][ServerNext]_vars

(***************************************************************************)
(* Properties of the compilation (SpecJob).                                *)
(***************************************************************************)
\* the entries of the job list of the file being compiled
Entries == IF yaml # <<>> /\ yaml[1].t = "hash" /\ yaml[1].job.t = "vec" THEN yaml[1].job.v ELSE <<>>

IsActionEntry(e) == e.t = "hash" /\ e.action.t # "bad"
IsBarrierEntry(e) == e.t = "hash" /\ e.action.t = "bad" /\ e.barrier.t # "bad"
WellFormedAction(e) ==
    /\ IsActionEntry(e)
    /\ e.action.t = "str" /\ e.runs_on.t = "str" /\ e.commands.t = "vec"
    /\ \A k \in DOMAIN e.commands.v : e.commands.v[k].t = "str"

SourceAction(e) ==
    Action(e.action.v, [k \in DOMAIN e.commands.v |-> e.commands.v[k].v], e.runs_on.v)

RECURSIVE SourceActionsOn(_, _)
SourceActionsOn(entries, w) ==
    IF entries = <<>> THEN <<>>
    ELSE (IF Head(entries).runs_on.v = w THEN <<SourceAction(Head(entries))>> ELSE <<>>)
         \o SourceActionsOn(Tail(entries), w)

OnlyActions == Entries # <<>> /\ \A k \in DOMAIN Entries : WellFormedAction(Entries[k])

\* C7: a job file of action entries only compiles to one queue per distinct runs-on
\* name, and each queue holds the actions of that name in source order
C7_QueuePerWorkerInSourceOrder ==
    \A c \in DOMAIN compiled :
        OnlyActions =>
            /\ compiled[c].ok
            /\ DOMAIN compiled[c].v.tasks_queues = {Entries[k].runs_on.v : k \in DOMAIN Entries}
            /\ \A w \in DOMAIN compiled[c].v.tasks_queues :
                  compiled[c].v.tasks_queues[w] = SourceActionsOn(Entries, w)
            /\ compiled[c].v.barrier_participants = <<>>

C7_Witness ==
    /\ compiled # <<>>
    /\ OnlyActions
    /\ compiled[1].ok
    /\ Cardinality(DOMAIN compiled[1].v.tasks_queues) >= 2
    /\ \E w \in DOMAIN compiled[1].v.tasks_queues :
          /\ Len(compiled[1].v.tasks_queues[w]) >= 2
          /\ compiled[1].v.tasks_queues[w][1] # compiled[1].v.tasks_queues[w][2]

\* the first k entries are actions on k distinct workers and entry k+1 is a barrier
PrefixThenBarrier(k) ==
    /\ k + 1 \in DOMAIN Entries
    /\ \A a \in 1..k : WellFormedAction(Entries[a])
    /\ \A a, b \in 1..k : a # b => Entries[a].runs_on.v # Entries[b].runs_on.v
    /\ IsBarrierEntry(Entries[k + 1])

NumBarriers(q) == Cardinality({k \in DOMAIN q : q[k].type = "Barrier"})

\* the queues that received the first barrier of the job: they hold every barrier
GotFirstBarrier(j, n) ==
    {w \in DOMAIN j.tasks_queues :
        /\ NumBarriers(j.tasks_queues[w]) = Len(j.barrier_participants)
        /\ \E k \in DOMAIN j.tasks_queues[w] :
              /\ j.tasks_queues[w][k] = Barrier(n)
              /\ \A m \in 1..(k - 1) : j.tasks_queues[w][m].type = "Action"}

\* C8: when a barrier follows a prefix of k actions on k distinct workers, the size
\* recorded for that barrier is k and exactly k queues receive the Barrier task
C8_BarrierAfterPrefix ==
    \A k \in 0..Len(Entries) :
        PrefixThenBarrier(k) =>
            /\ (jpc = "loop" /\ Len(job_entries) + k + 1 = Len(parse(yaml).v)) =>
                  /\ barrier_participants_ = <<k>>
                  /\ barrier_participants = 0
                  /\ Cardinality(DOMAIN tasks) = k
                  /\ \A w \in DOMAIN tasks :
                        Len(tasks[w]) = 2 /\ tasks[w][2] = Barrier(k)
            /\ \A c \in DOMAIN compiled :
                  compiled[c].ok =>
                     /\ compiled[c].v.barrier_participants[1] = k
                     /\ Cardinality(GotFirstBarrier(compiled[c].v, k)) = k

C8_Witness ==
    /\ PrefixThenBarrier(2)
    /\ compiled # <<>>
    /\ compiled[1].ok
    /\ Cardinality(DOMAIN compiled[1].v.tasks_queues) = 3

\* C9: compiling the same job file again with the same env gives the same worker
\* names, the same queues and the same barrier sizes, whatever order the map of
\* queues is iterated in
C9_CompileTwiceSame ==
    \A a, b \in DOMAIN compiled : compiled[a] = compiled[b]

C9_Witness ==
    /\ Len(compiled) >= 2
    /\ compiled[1].ok
    /\ compiled[1].v.barrier_participants # <<>>
    /\ Cardinality({w \in DOMAIN compiled[1].v.tasks_queues :
                       NumBarriers(compiled[1].v.tasks_queues[w]) > 0}) >= 2

HasEmptyCommands ==
    \E k \in DOMAIN Entries :
        /\ IsActionEntry(Entries[k])
        /\ Entries[k].commands.t = "vec"
        /\ Entries[k].commands.v = <<>>

EmptyCommandsIn(q) == \E k \in DOMAIN q : q[k].type = "Action" /\ q[k].commands = <<>>

\* C10: a job file with an action entry whose command list is empty fails to compile:
\* no Job is produced and no Action without commands reaches a queue
C10_EmptyCommandsRejected ==
    /\ HasEmptyCommands =>
          /\ \A c \in DOMAIN compiled : ~compiled[c].ok
          /\ jpc # "loop"
    /\ ~EmptyCommandsIn(job_entries)
    /\ \A w \in DOMAIN tasks : ~EmptyCommandsIn(tasks[w])

(***************************************************************************)
(* Properties of the scheduler (Spec, SpecStages).                         *)
(***************************************************************************)
\* the handles a run holds: allocated and not placed yet, or bound to one of its workers
Held(t) ==
    Len(allocated[t]) + Cardinality({i \in DOMAIN schedule[t] : schedule[t][i].runner # None})

IsPermutation(a, b) ==
    /\ Len(a) = Len(b)
    /\ \A x \in Range(a) \cup Range(b) :
          Cardinality({k \in DOMAIN a : a[k] = x}) = Cardinality({k \in DOMAIN b : b[k] = x})

ReturnedOk(t) == pc[t] = "returned" /\ result[t] # None /\ result[t][1].ok

\* C1: a run never holds more handles than its job has worker queues, and a run that
\* returns Ok has pushed back every handle it checked out, each exactly once
C1_AllocationSafety ==
    \A t \in Threads :
        /\ Held(t) <= num_workers(submitted[t])
        /\ ReturnedOk(t) => Held(t) = 0 /\ IsPermutation(pushed_back[t], checked_out[t])

\* where a handle is: a slot of the idle pool, of a run's allocation, or a worker
Places(h) ==
    {<<"pool", 0, k>> : k \in {k \in DOMAIN runners : runners[k] = h}}
    \cup UNION {{<<"allocated", t, k>> : k \in {k \in DOMAIN allocated[t] : allocated[t][k] = h}} :
                  t \in Threads}
    \cup UNION {{<<"worker", t, i>> : i \in {i \in DOMAIN schedule[t] :
                                              schedule[t][i].runner = Some(h)}} :
                  t \in Threads}

\* C2: every configured handle is in exactly one place, the idle pool or one worker of
\* one run (a handle a run has allocated and not placed yet counts as that run's):
\* it is never duplicated and never lost
C2_ExclusiveOwnership ==
    \A h \in 1..NumRunners : Cardinality(Places(h)) = 1

\* the queue a worker was built from
Orig(t, i) == submitted[t].tasks_queues[schedule[t][i].runner_name]
NumJobBarriers(t) == Len(submitted[t].barrier_participants)
\* the barriers of the job that precede the creation of the worker's queue
Skipped(t, i) == NumJobBarriers(t) - NumBarriers(Orig(t, i))
ContainsBarrier(t, i, b) == b > Skipped(t, i) /\ b <= NumJobBarriers(t)
PositionOfBarrier(q, n) ==
    CHOOSE k \in DOMAIN q :
        q[k].type = "Barrier" /\ Cardinality({m \in 1..k : q[m].type = "Barrier"}) = n
Popped(t, i) == Len(Orig(t, i)) - Len(schedule[t][i].scheduled_tasks)
ArrivedAt(t, i, b) == Popped(t, i) >= PositionOfBarrier(Orig(t, i), b - Skipped(t, i))
ExecutedAfter(t, i, b) ==
    \E p \in DOMAIN Orig(t, i) :
        /\ p > PositionOfBarrier(Orig(t, i), b - Skipped(t, i))
        /\ p <= Popped(t, i)
        /\ Orig(t, i)[p].type = "Action"

\* C3: no worker executes an action that follows barrier b in its queue while another
\* worker whose queue also holds barrier b has not arrived at barrier b
C3_StageOrder ==
    \A t \in Threads : \A i, j \in DOMAIN schedule[t] : \A b \in 1..NumJobBarriers(t) :
        (i # j /\ ContainsBarrier(t, i, b) /\ ContainsBarrier(t, j, b) /\ ExecutedAfter(t, i, b))
            => ArrivedAt(t, j, b)

RECURSIVE Flatten(_)
Flatten(ss) == IF ss = <<>> THEN <<>> ELSE Head(ss) \o Flatten(Tail(ss))

\* C4: when an action of one worker failed, the lines of every action the other
\* workers completed are in the output the run returns
C4_FailureIsolation ==
    \A t \in Threads :
        (ReturnedOk(t) /\ failures[t] # {}) =>
            \A f \in failures[t] : \A i \in DOMAIN trace[t] :
                i # f => \A k \in DOMAIN trace[t][i] :
                            trace[t][i][k] \in Range(result[t][1].v)

C4_Witness ==
    \E t \in Threads :
        /\ ReturnedOk(t)
        /\ \E f \in failures[t] : \E i \in DOMAIN trace[t] : i # f /\ trace[t][i] # <<>>

\* C5: once the workers of a run are scheduled, the run can only end by returning Ok
\* with the output it accumulated: a worker's error never becomes the run's result
C5_WorkerErrorsNotPropagated ==
    [][\A t \in Threads :
          pc[t] \in {"join", "release"} =>
              /\ pc'[t] \in {"join", "release", "returned"}
              /\ pc'[t] = "returned" => result'[t] = Some(Ok(job_output[t]))]_vars

C5_Witness ==
    \E t \in Threads :
        /\ ReturnedOk(t)
        /\ Cardinality(failures[t]) = 2
        /\ result[t][1].v # <<>>

\* C6: the output a run returns is the concatenation, in schedule order, of the lines
\* of each worker's completed actions in the order the worker completed them
C6_OutputOrder ==
    \A t \in Threads : ReturnedOk(t) => result[t][1].v = Flatten(trace[t])

C6_Witness ==
    \E t \in Threads :
        /\ ReturnedOk(t)
        /\ Len(trace[t]) = 2
        /\ Len(trace[t][1]) >= 2
        /\ Len(trace[t][2]) >= 1
        /\ result[t][1].v = trace[t][1] \o trace[t][2]

NoJobList == yaml = <<>> \/ yaml[1].t # "hash" \/ yaml[1].job.t # "vec"
MalformedAction(e) == IsActionEntry(e) /\ ~WellFormedAction(e)
\* an error returned as a value: Err(e), not the panic of the thread
IsErrorValue(r) == ~r.ok /\ r # Panic
IsParseError(r) == IsErrorValue(r)

\* C11: compilation returns a ParseError value, and does not crash, when the file has
\* no job list (an empty document included) or holds a malformed action entry; entries
\* of an unrecognized shape are skipped and do not make compilation fail
C11_ParseErrorsAreValues ==
    \A c \in DOMAIN compiled :
        /\ (NoJobList \/ \E k \in DOMAIN Entries : MalformedAction(Entries[k]))
              => IsParseError(compiled[c])
        /\ (~NoJobList /\ \A k \in DOMAIN Entries : ~MalformedAction(Entries[k]))
              => compiled[c].ok

\* the barrier sizes the source asks for: the actions counted between two barriers
RECURSIVE ExpectedSizes(_, _)
ExpectedSizes(entries, count) ==
    IF entries = <<>> THEN <<>>
    ELSE IF IsActionEntry(Head(entries)) THEN ExpectedSizes(Tail(entries), count + 1)
    ELSE IF IsBarrierEntry(Head(entries)) THEN <<count>> \o ExpectedSizes(Tail(entries), 0)
    ELSE ExpectedSizes(Tail(entries), count)

\* the queue the source asks for worker w: its actions, and every barrier met after
\* its first action, carrying the count of the actions since the previous barrier
RECURSIVE ExpectedQueue(_, _, _, _)
ExpectedQueue(entries, w, count, exists) ==
    IF entries = <<>> THEN <<>>
    ELSE IF IsActionEntry(Head(entries))
    THEN IF Head(entries).runs_on.v = w
         THEN <<SourceAction(Head(entries))>> \o ExpectedQueue(Tail(entries), w, count + 1, TRUE)
         ELSE ExpectedQueue(Tail(entries), w, count + 1, exists)
    ELSE IF IsBarrierEntry(Head(entries))
    THEN (IF exists THEN <<Barrier(count)>> ELSE <<>>) \o ExpectedQueue(Tail(entries), w, 0, exists)
    ELSE ExpectedQueue(Tail(entries), w, count, exists)

\* C17: the compiled barrier sizes have one entry per barrier entry of the source, in
\* source order, each the number of action entries since the previous barrier; barrier
\* i is appended with that count to the queues that exist when it is met, no other
C17_BarrierSizesAndPlacement ==
    \A c \in DOMAIN compiled :
        compiled[c].ok =>
            /\ compiled[c].v.barrier_participants = ExpectedSizes(Entries, 0)
            /\ Len(compiled[c].v.barrier_participants)
                  = Cardinality({k \in DOMAIN Entries : IsBarrierEntry(Entries[k])})
            /\ DOMAIN compiled[c].v.tasks_queues
                  = {Entries[k].runs_on.v : k \in {k \in DOMAIN Entries : IsActionEntry(Entries[k])}}
            /\ \A w \in DOMAIN compiled[c].v.tasks_queues :
                  compiled[c].v.tasks_queues[w] = ExpectedQueue(Entries, w, 0, FALSE)

C17_Witness ==
    /\ compiled # <<>>
    /\ compiled[1].ok
    /\ Len(compiled[1].v.barrier_participants) >= 2
    /\ compiled[1].v.barrier_participants[1] # compiled[1].v.barrier_participants[2]
    /\ \E w \in DOMAIN compiled[1].v.tasks_queues :
          /\ NumBarriers(compiled[1].v.tasks_queues[w]) >= 1
          /\ NumBarriers(compiled[1].v.tasks_queues[w]) < Len(compiled[1].v.barrier_participants)

(***************************************************************************)
(* Properties of the trigger and of the remote execution (SpecTrigger).    *)
(***************************************************************************)
\* the pieces of a query that split into a key and a value
WellFormedPairs(q) == {k \in DOMAIN q : Len(q[k]) = 2}

\* C12: the env handed to Job::new holds DEMIKERNEL_<K> = v for every well-formed pair
\* k=v of the query whose upper-cased key K is not JOB, holds nothing derived from the
\* JOB key, and holds nothing else
C12_EnvFromQuery ==
    \A t \in Threads :
        job_env[t] # None =>
            LET q == request[t][1].query[1]
                e == job_env[t][1]
            IN  /\ \A k \in WellFormedPairs(q) :
                      to_uppercase(q[k][1]) # "JOB"
                          => <<"DEMIKERNEL_" \o to_uppercase(q[k][1]), q[k][2]>> \in e
                /\ \A pair \in e : pair[1] # "DEMIKERNEL_JOB"
                /\ \A pair \in e : \E k \in WellFormedPairs(q) :
                      pair = <<"DEMIKERNEL_" \o to_uppercase(q[k][1]), q[k][2]>>

\* C14: when the runners allocated do not match the queues of the job, or a placed
\* name has no queue, the run returns an error value; the thread does not panic
C14_InvariantViolationsAreErrors ==
    [][\A t \in Threads :
          (pc[t] = "schedule" /\ pc'[t] = "returned")
              => (result'[t] # None /\ IsErrorValue(result'[t][1]))]_vars

\* a request that names no job: wrong path, no query, or no pair whose key is JOB
BadRequest(req) ==
    \/ req.path # "/run"
    \/ req.query = None
    \/ ~\E k \in WellFormedPairs(req.query[1]) : to_uppercase(req.query[1][k][1]) = "JOB"

\* C15: a request that names no job gets an error result, no job is compiled or run
\* for it and no runner is taken; an error result is answered with an error status
\* and an empty body, the result of a run with its output lines as the body
C15_TriggerErrorsAndResponses ==
    \A t \in Threads :
        request[t] # None =>
            /\ BadRequest(request[t][1]) =>
                  /\ pc[t] \in {"returned", "responded"}
                  /\ IsErrorValue(result[t][1])
                  /\ job_env[t] = None
                  /\ submitted[t] = NoJob /\ job[t] = NoJob
                  /\ checked_out[t] = <<>> /\ Held(t) = 0
            /\ pc[t] = "responded" =>
                  /\ response[t] # None
                  /\ result[t][1].ok =>
                        response[t][1] = [status |-> 200, body |-> result[t][1].v]
                  /\ ~result[t][1].ok =>
                        response[t][1] = [status |-> 500, body |-> <<>>]

C15_Witness ==
    \E t \in Threads :
        /\ pc[t] = "responded"
        /\ request[t][1].path = "/run"
        /\ request[t][1].query # None
        /\ BadRequest(request[t][1])
        /\ response[t][1].status = 500

\* C16: an execution that the remote side ends with a status other than 0 fails, and
\* its action is not pushed to the completed tasks of the worker
C16_NonZeroExitFails ==
    \A t \in Threads :
        pc[t] = "join" =>
            \A x \in remote_exits[t] :
                /\ x[1] \in failures[t]
                /\ \A k \in DOMAIN schedule[t][x[1]].completed_tasks :
                      schedule[t][x[1]].completed_tasks[k].name # x[2]

(***************************************************************************)
(* Properties of the allocation and of failing workers.                    *)
(***************************************************************************)
\* C18: an allocation that succeeds takes exactly as many runners from the idle pool
\* as the job has queues, also when the job has none
C18_AllocatesExactly ==
    [][\A t \in Threads :
          (pc[t] = "allocate" /\ pc'[t] = "schedule")
              => /\ Len(allocated'[t]) = num_workers(job[t])
                 /\ Len(runners') = Len(runners) - num_workers(job[t])]_vars

\* C19: an allocation attempt made while too few runners are idle leaves the pool as
\* it is and the run holds no runner while it sleeps; the pool is not locked meanwhile:
\* another run can take runners from it and push runners to it
C19_FailedAllocationTakesNothing ==
    /\ [][\A t \in Threads :
             (pc[t] = "allocate" /\ pc'[t] = "sleep")
                 => /\ runners' = runners
                    /\ Len(runners) < num_workers(job[t])
                    /\ allocated'[t] = <<>>]_vars
    /\ [](\A t \in Threads :
             pc[t] = "sleep" =>
                /\ Held(t) = 0 /\ checked_out[t] = <<>>
                /\ \A u \in Threads \ {t} :
                      /\ pc[u] = "allocate" => ENABLED AllocateRunners(u)
                      /\ (pc[u] = "release" /\ Held(u) > 0) => ENABLED ReleaseRunner(u))

C19_Witness ==
    \E t \in Threads : \E u \in Threads \ {t} :
        /\ pc[t] = "sleep"
        /\ runners # <<>>
        /\ Len(runners) < num_workers(job[t])
        /\ pc[u] = "release"
        /\ pushed_back[u] # <<>>

\* C20: when an action fails, the thread of its worker ends: the action is not pushed
\* to the completed tasks, afterwards the worker pops no task and passes no barrier,
\* and the failure changes nothing of the other workers
C20_FailureEndsWorker ==
    [][\A t \in Threads : \A i \in DOMAIN schedule[t] \cap DOMAIN schedule'[t] :
          LET w == schedule[t][i]
              w_ == schedule'[t][i]
          IN  /\ (i \notin failures[t] /\ i \in failures'[t]) =>
                    /\ w_.st \in {"failed", "panicked"}
                    /\ w_.completed_tasks = w.completed_tasks
                    /\ w_.next_barrier = w.next_barrier
                    /\ barriers' = barriers
                    /\ \A j \in DOMAIN schedule[t] \ {i} : schedule'[t][j] = schedule[t][j]
              /\ i \in failures[t] =>
                    /\ w_.st = w.st
                    /\ w_.scheduled_tasks = w.scheduled_tasks
                    /\ w_.completed_tasks = w.completed_tasks
                    /\ w_.next_barrier = w.next_barrier]_vars

C20_Witness ==
    \E t \in Threads : \E i \in failures[t] :
        /\ pc[t] = "join"
        /\ schedule[t][i].st = "failed"
        /\ schedule[t][i].scheduled_tasks # <<>>
        /\ \E j \in DOMAIN schedule[t] \ {i} :
              /\ schedule[t][j].completed_tasks # <<>>
              /\ schedule[t][j].st = "done"

(***************************************************************************)
(* Termination of a single-worker job (SpecSingle).                        *)
(***************************************************************************)
\* one queue that holds every barrier of the job, one action before each barrier
SingleStaged(j) ==
    /\ num_workers(j) = 1
    /\ \A w \in DOMAIN j.tasks_queues :
          /\ NumBarriers(j.tasks_queues[w]) = Len(j.barrier_participants)
          /\ \A k \in DOMAIN j.tasks_queues[w] :
                j.tasks_queues[w][k].type = (IF k % 2 = 1 THEN "Action" ELSE "Barrier")

ActionsOf(q) == SelectSeq(q, LAMBDA task : task.type = "Action")

InSourceOrder(t) ==
    \A w \in DOMAIN submitted[t].tasks_queues :
        /\ Len(result[t][1].v) = Len(ActionsOf(submitted[t].tasks_queues[w]))
        /\ \A k \in DOMAIN result[t][1].v :
              result[t][1].v[k][2] = ActionsOf(submitted[t].tasks_queues[w])[k].name

Ahead(t, i, b) == ContainsBarrier(t, i, b) /\ ~ArrivedAt(t, i, b)

\* the worker's queue holds an action of the stage that barrier b closes, one of the
\* actions Job::new counted into the size of barrier b
CountedIn(t, i, b) ==
    /\ ContainsBarrier(t, i, b)
    /\ \E p \in DOMAIN Orig(t, i) :
          /\ Orig(t, i)[p].type = "Action"
          /\ p < PositionOfBarrier(Orig(t, i), b - Skipped(t, i))
          /\ \A m \in (p + 1)..(PositionOfBarrier(Orig(t, i), b - Skipped(t, i)) - 1) :
                Orig(t, i)[m].type = "Action"

\* the worker popped barrier b and its thread is inside wait()
BlockedAt(t, j, b) ==
    /\ ContainsBarrier(t, j, b)
    /\ schedule[t][j].st = "waiting"
    /\ Popped(t, j) = PositionOfBarrier(Orig(t, j), b - Skipped(t, j))

\* C21: when the thread of a worker ended because an action failed while barrier b,
\* whose size counts that worker, is still ahead in its queue, every other worker that
\* arrives at barrier b blocks there and stays blocked, and the run does not return
C21_FailedParticipantBlocksBarrier ==
    [][\A t \in Threads : \A i, j \in DOMAIN schedule[t] : \A b \in 1..NumJobBarriers(t) :
          (/\ pc[t] = "join"
           /\ i \in failures[t]
           /\ Ahead(t, i, b) /\ CountedIn(t, i, b)
           /\ j # i /\ ContainsBarrier(t, j, b)
           /\ \/ ~ArrivedAt(t, j, b) /\ ArrivedAt(t, j, b)'
              \/ BlockedAt(t, j, b))
              => (pc'[t] = "join" /\ BlockedAt(t, j, b)')]_vars

\* C22: every worker thread of a run has ended when the run collects output, pushes a
\* runner to the idle pool or returns; the runner of a worker whose thread has not
\* ended is not in the idle pool
C22_WorkersJoinedFirst ==
    /\ [][\A t \in Threads :
             (\/ pc[t] = "join" /\ pc'[t] # "join"
              \/ job_output'[t] # job_output[t]
              \/ pushed_back'[t] # pushed_back[t]
              \/ result'[t] # result[t])
                 => \A i \in DOMAIN schedule[t] : Finished(schedule[t][i])]_vars
    /\ [](\A t \in Threads : \A i \in DOMAIN schedule[t] :
             ~Finished(schedule[t][i]) =>
                /\ pc[t] = "join"
                /\ schedule[t][i].runner # None
                /\ schedule[t][i].runner[1] \notin Range(runners))

C22_Witness ==
    \E t \in Threads : \E u \in Threads \ {t} :
        /\ pc[t] = "release"
        /\ Len(schedule[t]) = 2
        /\ pushed_back[t] # <<>>
        /\ job_output[t] # <<>>
        /\ pc[u] = "join"
        /\ \E i \in DOMAIN schedule[u] : ~Finished(schedule[u][i])

(***************************************************************************)
(* Placement and the worker loop.                                          *)
(***************************************************************************)
\* C23: when schedule_tasks has built the workers, every allocated runner is bound to
\* exactly one worker, every queue of the job was moved to exactly one worker, no two
\* workers have the same queue, and the job has no queue left
C23_PlacementIsBijection ==
    [][\A t \in Threads :
          (pc[t] = "schedule" /\ pc'[t] = "join") =>
              LET ws == schedule'[t]
              IN  /\ Len(ws) = Len(allocated[t])
                  /\ \A h \in Range(allocated[t]) :
                        Cardinality({i \in DOMAIN ws : ws[i].runner = Some(h)}) = 1
                  /\ \A k \in DOMAIN job[t].tasks_queues :
                        Cardinality({i \in DOMAIN ws :
                                        /\ ws[i].runner_name = k
                                        /\ ws[i].scheduled_tasks = job[t].tasks_queues[k]}) = 1
                  /\ \A i, j \in DOMAIN ws : i # j => ws[i].runner_name # ws[j].runner_name
                  /\ \A i \in DOMAIN ws : ws[i].runner_name \in DOMAIN job[t].tasks_queues
                  /\ DOMAIN job'[t].tasks_queues = {}]_vars

\* two workers were just built, each with its own runner and its own queue
C23_Witness ==
    \E t \in Threads :
        /\ pc[t] = "join"
        /\ Len(schedule[t]) = 2
        /\ DOMAIN job[t].tasks_queues = {}
        /\ \A i \in DOMAIN schedule[t] :
              /\ schedule[t][i].st = "ready"
              /\ schedule[t][i].completed_tasks = <<>>
              /\ schedule[t][i].scheduled_tasks = Orig(t, i)
        /\ schedule[t][1].scheduled_tasks # schedule[t][2].scheduled_tasks
        /\ schedule[t][1].runner # schedule[t][2].runner

\* the tasks the worker has popped from its queue, and the actions among them
PoppedTasks(t, i) == SubSeq(Orig(t, i), 1, Popped(t, i))
WithoutOutput(task) == [task EXCEPT !.output = None]

\* C24: a worker consumes its queue in order, one task at a time: what is left is the
\* rest of its original queue, its completed actions are the first actions of the
\* original queue, in that order, every action popped before was pushed as completed
\* when the next task is popped, and no task is popped while the worker is inside wait()
C24_WorkerQueueOrder ==
    /\ [](\A t \in Threads : \A i \in DOMAIN schedule[t] :
             LET w == schedule[t][i]
                 done == ActionsOf(PoppedTasks(t, i))
             IN  /\ w.scheduled_tasks = SubSeq(Orig(t, i), Popped(t, i) + 1, Len(Orig(t, i)))
                 /\ Len(w.completed_tasks) <= Len(done)
                 /\ \A k \in DOMAIN w.completed_tasks :
                       /\ w.completed_tasks[k].type = "Action"
                       /\ WithoutOutput(w.completed_tasks[k]) = done[k]
                 /\ w.st \in {"ready", "waiting", "done"}
                       => Len(w.completed_tasks) = Len(done))
    /\ [][\A t \in Threads : \A i \in DOMAIN schedule[t] \cap DOMAIN schedule'[t] :
             schedule'[t][i].scheduled_tasks # schedule[t][i].scheduled_tasks
                 => /\ schedule[t][i].st = "ready"
                    /\ schedule'[t][i].scheduled_tasks = Tail(schedule[t][i].scheduled_tasks)]_vars

\* a worker that completed two actions, passed a barrier and has tasks left
C24_Witness ==
    \E t \in Threads : \E i \in DOMAIN schedule[t] :
        /\ pc[t] = "join"
        /\ Len(schedule[t][i].completed_tasks) >= 2
        /\ schedule[t][i].completed_tasks[1].name # schedule[t][i].completed_tasks[2].name
        /\ schedule[t][i].next_barrier >= 1
        /\ schedule[t][i].scheduled_tasks # <<>>

\* C25: the output of an action is written once: an action in a scheduled queue has no
\* output, an action among the completed tasks has one, and a completed action and its
\* output are never changed afterwards
C25_OutputWriteOnce ==
    /\ [](\A t \in Threads :
             /\ \A k \in DOMAIN job[t].tasks_queues : \A m \in DOMAIN job[t].tasks_queues[k] :
                   job[t].tasks_queues[k][m].type = "Action"
                       => job[t].tasks_queues[k][m].output = None
             /\ \A i \in DOMAIN schedule[t] :
                   /\ \A m \in DOMAIN schedule[t][i].scheduled_tasks :
                         schedule[t][i].scheduled_tasks[m].type = "Action"
                             => schedule[t][i].scheduled_tasks[m].output = None
                   /\ \A m \in DOMAIN schedule[t][i].completed_tasks :
                         /\ schedule[t][i].completed_tasks[m].type = "Action"
                         /\ schedule[t][i].completed_tasks[m].output # None)
    /\ [][\A t \in Threads : \A i \in DOMAIN schedule[t] \cap DOMAIN schedule'[t] :
             /\ Len(schedule'[t][i].completed_tasks) >= Len(schedule[t][i].completed_tasks)
             /\ \A m \in DOMAIN schedule[t][i].completed_tasks :
                   schedule'[t][i].completed_tasks[m] = schedule[t][i].completed_tasks[m]]_vars

\* a worker with a completed action, one of no line included, and an action to run
C25_Witness ==
    \E t \in Threads : \E i \in DOMAIN schedule[t] :
        /\ pc[t] = "join"
        /\ \E m \in DOMAIN schedule[t][i].completed_tasks :
              schedule[t][i].completed_tasks[m].output = Some(<<>>)
        /\ \E m \in DOMAIN schedule[t][i].scheduled_tasks :
              schedule[t][i].scheduled_tasks[m].type = "Action"

(***************************************************************************)
(* Barrier sizes against the workers that wait (SpecJob, SpecStages).      *)
(***************************************************************************)
\* the tasks Job::parse makes of the job file, and the stage of each: the number of
\* barriers before it
SourceTasks == IF parse(yaml).ok THEN parse(yaml).v ELSE <<>>
StageOf(ts, k) == Cardinality({m \in 1..(k - 1) : ts[m].type = "Barrier"})
NumStages(ts) == Cardinality({m \in DOMAIN ts : ts[m].type = "Barrier"})

\* the actions of stage s, the stage that barrier s closes, that run on worker w
ActionsInStage(ts, s, w) ==
    {k \in DOMAIN ts : ts[k].type = "Action" /\ ts[k].runs_on = w /\ StageOf(ts, k) = s - 1}

\* between two consecutive barriers every worker receives at most one action
OneActionPerWorkerPerStage(ts) ==
    \A s \in 1..NumStages(ts) : \A k \in DOMAIN ts :
        ts[k].type = "Action" => Cardinality(ActionsInStage(ts, s, ts[k].runs_on)) <= 1

\* the queues of the job that hold its barrier b: a queue holds the barriers met
\* after its first action, the last ones of the job
QueuesHolding(j, b) ==
    {w \in DOMAIN j.tasks_queues :
        b > Len(j.barrier_participants) - NumBarriers(j.tasks_queues[w])}

\* C26: when every worker receives at most one action between two consecutive
\* barriers, the number of queues that hold a barrier, one waiting thread each, is the
\* size recorded for that barrier
C26_OneActionPerStageSizesMatch ==
    \A c \in DOMAIN compiled :
        (compiled[c].ok /\ OneActionPerWorkerPerStage(SourceTasks)) =>
            \A b \in DOMAIN compiled[c].v.barrier_participants :
                Cardinality(QueuesHolding(compiled[c].v, b))
                    = compiled[c].v.barrier_participants[b]

\* the actions of the worker that Job::new counted into the size of barrier b: the
\* actions of its queue between its previous barrier and barrier b
CountedActions(t, i, b) ==
    LET q == Orig(t, i)
        pb == PositionOfBarrier(q, b - Skipped(t, i))
    IN  {p \in 1..(pb - 1) :
            q[p].type = "Action" /\ \A m \in (p + 1)..(pb - 1) : q[m].type = "Action"}

\* the workers whose queue holds barrier b: the threads that call wait for it
Holders(t, b) == {i \in DOMAIN schedule[t] : ContainsBarrier(t, i, b)}

\* some worker receives more than one action in the stage that barrier b closes
MultiActionStage(t, b) == \E i \in Holders(t, b) : Cardinality(CountedActions(t, i, b)) >= 2

\* the worker has popped barrier b and its thread has returned from wait()
PassedBarrier(t, i, b) ==
    /\ ArrivedAt(t, i, b)
    /\ ~BlockedAt(t, i, b)
    /\ schedule[t][i].st \in {"ready", "waiting", "done"}

\* C27: when some worker receives more than one action between two consecutive
\* barriers, the number of threads that wait at the barrier of that stage is not the
\* size of the barrier, and the run deadlocks there or releases a waiter too early: a
\* worker gets past that barrier only while another worker has yet to arrive at it
C27_MultiActionStageMismatch ==
    /\ [](\A t \in Threads : \A b \in 1..NumJobBarriers(t) :
             (pc[t] = "join" /\ MultiActionStage(t, b))
                 => Cardinality(Holders(t, b)) # submitted[t].barrier_participants[b])
    /\ [][\A t \in Threads : \A b \in 1..NumJobBarriers(t) : \A j \in Holders(t, b) :
             (/\ pc[t] = "join" /\ pc'[t] = "join"
              /\ MultiActionStage(t, b)
              /\ ~PassedBarrier(t, j, b) /\ PassedBarrier(t, j, b)')
                 => \E i \in Holders(t, b) : ~ArrivedAt(t, i, b)']_vars

(***************************************************************************)
(* Properties of Runner::run (SpecRunner, SpecTrigger).                    *)
(***************************************************************************)
\* the action the k-th call of Runner::run of a worker was made for
ExecutedAction(t, i, k) == ActionsOf(Orig(t, i))[k]

\* the commands in order, the separator between each two consecutive commands
RECURSIVE JoinedWith(_, _)
JoinedWith(commands, separator) ==
    IF Len(commands) = 1 THEN Head(commands)
    ELSE (Head(commands) \o separator) \o JoinedWith(Tail(commands), separator)

\* C28: the command line of an action with a non-empty command list, repeated commands
\* included, is its commands in order with the AND separator between each two
\* consecutive commands and none after the last
C28_CommandsJoinedByAnd ==
    \A t \in Threads :
        pc[t] = "join" =>
            \A i \in DOMAIN executions[t] : \A k \in DOMAIN executions[t][i] :
                ExecutedAction(t, i, k).commands # <<>> =>
                    executions[t][i][k].cmdline
                        = JoinedWith(ExecutedAction(t, i, k).commands, " &&")

\* the entry of the env that run_job made of the JOB parameter of the request
IsJobNameKey(key) == key = env_var_prefix \o "JOB"

\* C29: the env set on the channel of an execution is the env of the job without the
\* entry of the JOB key: the job name of the request is never sent to the remote side
C29_JobNameNotForwarded ==
    \A t \in Threads :
        (pc[t] = "join" /\ request[t] # None) =>
            \A i \in DOMAIN executions[t] : \A k \in DOMAIN executions[t][i] :
                executions[t][i][k].opened =>
                    /\ executions[t][i][k].setenv
                          = {kv \in submitted[t].env : ~IsJobNameKey(kv[1])}
                    /\ \A kv \in executions[t][i][k].setenv :
                          /\ ~IsJobNameKey(kv[1])
                          /\ to_lowercase(kv[1]) # "job"

\* Runner::run returned to Worker::run, with Ok or with Err
Returned(e) == e.result # Panic

\* C30: when Runner::run returns, on success and on every error of the execution, the
\* channel it opened was closed exactly once, a channel that did not open is not
\* closed, and what it returns is the result of do_run whether or not close() or
\* wait_close() failed
C30_ChannelClosedOnce ==
    \A t \in Threads :
        pc[t] = "join" =>
            \A i \in DOMAIN executions[t] : \A k \in DOMAIN executions[t][i] :
                LET e == executions[t][i][k]
                IN  /\ (e.opened /\ Returned(e)) => e.close_calls = 1
                    /\ ~e.opened => (e.close_calls = 0 /\ ~e.result.ok)
                    /\ e.wait_close_calls = (IF e.close_calls = 1 /\ e.close # "close failed"
                                             THEN 1 ELSE 0)
                    /\ Returned(e) => e.result = runner_run(e.rb)
                    /\ \A j \in DOMAIN executions[t] : \A m \in DOMAIN executions[t][j] :
                          executions[t][j][m].rb = e.rb => executions[t][j][m].result = e.result

\* an execution that failed after its channel opened, and whose close() failed too
C30_Witness ==
    \E t \in Threads : \E i \in DOMAIN executions[t] : \E k \in DOMAIN executions[t][i] :
        /\ pc[t] = "join"
        /\ executions[t][i][k].opened
        /\ executions[t][i][k].result = Err("exec failed")
        /\ executions[t][i][k].close = "close failed"
        /\ executions[t][i][k].close_calls = 1

(***************************************************************************)
(* The cursor of a worker against the barriers of the job (SpecStages).    *)
(***************************************************************************)
\* the worker is about to pop a Barrier task: the next call of wait_others
AtBarrierTask(t, i) ==
    /\ pc[t] = "join"
    /\ schedule[t][i].st = "ready"
    /\ schedule[t][i].scheduled_tasks # <<>>
    /\ Head(schedule[t][i].scheduled_tasks).type = "Barrier"

\* the index, from 1, of the barrier of the job that the Barrier task at the head of
\* the worker's queue was created for
JobBarrierIndex(t, i) == Skipped(t, i) + NumBarriers(PoppedTasks(t, i)) + 1

\* C34: when a worker pops a Barrier task, the Barrier object at its cursor is the
\* barrier of the job that the task was created for: the cursor is the index of that
\* barrier in the source and the object's size is the count the task carries, also for
\* a worker whose queue was created after barriers had been emitted
C34_CursorIsBarrierIndex ==
    \A t \in Threads : \A i \in DOMAIN schedule[t] :
        AtBarrierTask(t, i) =>
            /\ schedule[t][i].next_barrier + 1 = JobBarrierIndex(t, i)
            /\ barriers[t][schedule[t][i].next_barrier + 1].num_threads
                  = Head(schedule[t][i].scheduled_tasks).n

\* the barriers the worker has passed: the Barrier tasks it popped, less the one whose
\* wait() it is still inside
BarriersPassed(t, i) ==
    NumBarriers(PoppedTasks(t, i)) - (IF schedule[t][i].st = "waiting" THEN 1 ELSE 0)

\* C35: the cursor of a worker starts at 0, is the number of barriers the worker has
\* passed (it grows by 1 per barrier passed and never otherwise), and is less than the
\* number of Barrier objects of the job whenever the worker waits; no queue holds more
\* Barrier tasks than the job has barrier sizes
C35_CursorInRange ==
    /\ [](\A t \in Threads :
             /\ pc[t] = "join" => Len(barriers[t]) = Len(submitted[t].barrier_participants)
             /\ \A k \in DOMAIN submitted[t].tasks_queues :
                   NumBarriers(submitted[t].tasks_queues[k])
                       <= Len(submitted[t].barrier_participants)
             /\ \A i \in DOMAIN schedule[t] :
                   /\ schedule[t][i].next_barrier = BarriersPassed(t, i)
                   /\ (AtBarrierTask(t, i) \/ schedule[t][i].st = "waiting")
                         => schedule[t][i].next_barrier < Len(barriers[t]))
    /\ [][\A t \in Threads :
             /\ (pc[t] = "schedule" /\ pc'[t] = "join")
                   => \A i \in DOMAIN schedule'[t] : schedule'[t][i].next_barrier = 0
             /\ \A i \in DOMAIN schedule[t] \cap DOMAIN schedule'[t] :
                   /\ schedule'[t][i].next_barrier - schedule[t][i].next_barrier \in {0, 1}
                   /\ (AtBarrierTask(t, i) /\ ~AtBarrierTask(t, i)'
                       /\ schedule'[t][i].st # "waiting")
                         => schedule'[t][i].next_barrier = schedule[t][i].next_barrier + 1]_vars

\* a worker whose queue was created after a barrier of the job has passed two barriers
\* and is inside wait() for a third
C35_Witness ==
    \E t \in Threads : \E i \in DOMAIN schedule[t] :
        /\ pc[t] = "join"
        /\ Skipped(t, i) >= 1
        /\ schedule[t][i].next_barrier >= 1
        /\ schedule[t][i].st = "waiting"
        /\ schedule[t][i].next_barrier + 1 < Len(barriers[t])

(***************************************************************************)
(* Termination of the jobs of matching barrier sizes (SpecSingle).         *)
(***************************************************************************)
\* every worker name receives exactly one action in every stage that a barrier closes:
\* each queue is an action and a barrier for each barrier of the job, then actions
OneActionPerClosedStage(j) ==
    \A w \in DOMAIN j.tasks_queues :
        /\ NumBarriers(j.tasks_queues[w]) = Len(j.barrier_participants)
        /\ Len(j.tasks_queues[w]) >= 2 * Len(j.barrier_participants)
        /\ \A k \in 1..(2 * Len(j.barrier_participants)) :
              j.tasks_queues[w][k].type = (IF k % 2 = 1 THEN "Action" ELSE "Barrier")

\* the actions of the job: worker name and position in the queue
AllActions(j) ==
    UNION {{<<w, k>> : k \in {k \in DOMAIN j.tasks_queues[w] :
                                j.tasks_queues[w][k].type = "Action"}} :
             w \in DOMAIN j.tasks_queues}

\* the run returned the lines of every action of the job, every worker ran every action
\* of its queue, and every configured runner is idle again
ReturnedEverything(t) ==
    /\ ReturnedOk(t)
    /\ \A a \in AllActions(submitted[t]) :
          \E k \in DOMAIN result[t][1].v :
              /\ result[t][1].v[k][1] = a[1]
              /\ result[t][1].v[k][2] = submitted[t].tasks_queues[a[1]][a[2]].name
    /\ Len(Flatten(executions[t])) = Cardinality(AllActions(submitted[t]))
    /\ IsPermutation(runners, [h \in 1..NumRunners |-> h])

\* C36: a job in which every worker name receives exactly one action in every stage
\* closed by a barrier, requested alone while the configuration has at least as many
\* runners as the job has workers, returns, unless an action fails: every queue was
\* run to its end, the output of every action is in the result and every runner is
\* back in the idle pool
C36_MatchingJobTerminates ==
    \A t \in Threads :
        (/\ pc[t] = "allocate"
         /\ OneActionPerClosedStage(submitted[t])
         /\ num_workers(submitted[t]) <= NumRunners)
        ~> (failures[t] # {} \/ ReturnedEverything(t))

(***************************************************************************)
(* A job that needs more runners than the configuration has (SpecBig).     *)
(***************************************************************************)
\* the run of thread t is for a job with more workers than runners are configured
NeedsTooMany(t) == pc[t] # "idle" /\ num_workers(submitted[t]) > NumRunners

\* C32: the run of a job that needs more runners than are configured never leaves the
\* allocation loop: it returns nothing, neither a result nor an error, it holds no
\* runner, and none of its steps takes a runner from the idle pool
C32_TooBigNeverReturns ==
    /\ [](\A t \in Threads :
             NeedsTooMany(t) =>
                /\ pc[t] \in {"allocate", "sleep"}
                /\ result[t] = None /\ response[t] = None
                /\ Held(t) = 0 /\ checked_out[t] = <<>>)
    /\ [][\A t \in Threads :
             (NeedsTooMany(t) /\ pc'[t] # pc[t])
                 => (runners' = runners /\ NeedsTooMany(t)')]_vars

\* the run sleeps again although every configured runner is idle, after another run
\* took runners and pushed them back
C32_Witness ==
    \E t \in Threads : \E u \in Threads \ {t} :
        /\ NeedsTooMany(t)
        /\ pc[t] = "sleep"
        /\ Len(runners) = NumRunners
        /\ pc[u] = "returned"
        /\ pushed_back[u] # <<>>

(***************************************************************************)
(* Concurrent runs under fair scheduling (SpecPoolFair).                   *)
(***************************************************************************)
\* finitely many jobs are submitted: each request thread ends up idle for good, or
\* inside its last request for good
FiniteJobs == \A t \in Threads : <>[](pc[t] = "idle") \/ <>[](pc[t] # "idle")

\* every job terminates once its runners are allocated: its worker threads all end
JobsTerminate == \A t \in Threads : (pc[t] = "join") ~> (pc[t] # "join")

\* no run is between its allocation and its return
Quiet == \A t \in Threads : pc[t] \in {"idle", "returned", "responded"}

\* C37: when finitely many jobs are submitted concurrently, each needing no more
\* runners than are configured and each terminating once its runners are allocated,
\* every run returns under fair scheduling and the idle pool is full again when no run
\* is left; no run holds a runner while it waits for runners
C37_ConcurrentRunsReturn ==
    (FiniteJobs /\ JobsTerminate) =>
        /\ \A t \in Threads :
              (pc[t] = "allocate" /\ num_workers(submitted[t]) <= NumRunners)
                  ~> ReturnedOk(t)
        /\ [](Quiet => IsPermutation(runners, [h \in 1..NumRunners |-> h]))
        /\ [](\A t \in Threads : pc[t] \in {"allocate", "sleep"} => Held(t) = 0)

(***************************************************************************)
(* Properties of reading the output streams (SpecRead).                    *)
(***************************************************************************)
\* do_run is inside read_inboud_stream on the named stream
ReadingStream(name) == do_run.pc \in {"read_exact", "match"} /\ do_run.stream = name

\* C31: reading a stream of a remote execution always comes to an end, and when a
\* read failed with an error that is neither end of stream nor a timeout, the
\* execution returns an error.
C31_ReadTerminatesOrFails ==
    /\ \A name \in {"stdout", "stderr"} : ReadingStream(name) ~> ~ReadingStream(name)
    /\ [](do_run.pc = "returned" /\ do_run.warned => IsErrorValue(do_run.result[1]))

(***************************************************************************)
(* Properties of the server's handler threads (SpecServer).                *)
(***************************************************************************)
\* the handler threads that were spawned and are not joined
Unjoined == {server.threads[k] : k \in DOMAIN server.threads}

\* the handler threads that are inside the dispatcher, that is inside Scheduler::run
InDispatcher == {h \in Handlers : server.handler[h] = "dispatcher"}

\* the handler threads spawned before the group being filled now
EarlierGroups == 1..(server.spawned - (server.spawned % THREAD_MAX))

\* C38: the server never has more than THREAD_MAX handler threads that are not
\* joined; once THREAD_MAX of them were spawned no connection is accepted until all
\* of them have finished; at most THREAD_MAX handlers are in the dispatcher at once.
C38_AtMostThreadMaxHandlers ==
    /\ [](Cardinality(Unjoined) = Len(server.threads))
    /\ [](Len(server.threads) <= THREAD_MAX)
    /\ [](\A h \in Handlers :
            server.handler[h] \notin {"unborn", "finished"} => h \in Unjoined)
    /\ [](Cardinality(InDispatcher) <= THREAD_MAX)
    /\ [](Len(server.threads) = THREAD_MAX => server.pc = "join")
    /\ [][server'.spawned # server.spawned =>
            \A h \in EarlierGroups : server.handler[h] = "finished" /\ h \notin Unjoined]_vars

\* a second group of THREAD_MAX handlers is in the dispatcher, all at once
C38_Witness ==
    /\ server.spawned > THREAD_MAX
    /\ Len(server.threads) = THREAD_MAX
    /\ Cardinality(InDispatcher) = THREAD_MAX

====
